---- MODULE Spec2Model ----
(***************************************************************************)
(* Transaction lifecycle of the rewards application (src/lib/transactions.ts)*)
(* over the remote gateway's `transactions` table.                         *)
(*                                                                         *)
(* Every await of the source is one gateway round trip and one step of the *)
(* model: createOrReuseActiveTransaction is a find step followed by an     *)
(* update step (reuse path) or by createPendingTransaction's insert step;  *)
(* updateTransactionStatus is a single update step.  The code that runs    *)
(* after an await up to the next await or the return (mapRow,              *)
(* emitTransaction, return) belongs to the step of that await.             *)
(*                                                                         *)
(* A nullable or optional value is a sequence of length at most one:       *)
(* <<>> is null / undefined, <<v>> is the value v.  An options object or a *)
(* patch is a function whose domain is the set of keys that are present.   *)
(***************************************************************************)
EXTENDS Integers, Sequences, FiniteSets, TLC

\* ---------------------------------------------------------------- bounds
MaxCalls == 3        \* calls started in one behaviour
MaxTime == 2         \* largest value of the clock
MaxEmits == 2        \* emitTransaction calls made directly on the event bus
MaxQueries == 3      \* queries one subscription instance issues
MaxWrites == 2       \* writes made to the table a subscription watches

\* ------------------------------------------------------- small input sets
Users == {"u1", "u2"}
Offers == {"o1"}
Admins == {"admin1"}
Procs == {"p1", "p2"}          \* concurrently running call paths
SeqProcs == {"p1"}             \* one call path: every call completes before the next
ExplicitTimes == {0}           \* a reviewed_at supplied by a caller (never a clock value)
Statuses == {"pending", "rejected", "paid"}
UnknownId == 0                 \* stands for the literal id 'unknown'

Callbacks == {"a", "b", "c"}   \* callbacks handed to addTransactionListener
Throwing == {"b"}              \* the callbacks that can throw
Acting == {"c"}                \* the callbacks that register or de-register while they run

Null == <<>>
Some(v) == <<v>>

VARIABLES
    transactions,   \* the gateway table: sequence of rows, row i has id i
    now,            \* the clock read by new Date() and by the gateway's defaults
    pc,             \* pc[p]: where call path p is suspended
    local,          \* local[p]: input and `existing` of the call p is running
    last,           \* the call completed most recently: caller, arguments, outcome
    lastEvent,      \* payload of the most recent emitTransaction
    calls,          \* number of calls started
    everPaid,       \* ids of the rows that have had status paid (history)
    scenario,       \* calls of the end-to-end scenario completed so far, -1 once left
    \* the local event bus (src/lib/txEvents.ts)
    listeners,      \* the Set of callbacks, in insertion order
    handles,        \* callbacks for which a de-registration handle has been returned
    emitting,       \* the emitTransaction loop in progress: payload and callbacks still to call
    emits,          \* number of emitTransaction calls started on the bus
    snapshot,       \* snapshot[e]: the listeners when emit e started (history)
    deliveries,     \* callback invocations so far: callback, payload, whether it threw
    emitThrew,      \* payloads whose emitTransaction call threw
    removed,        \* callbacks whose handle was called and that were not registered since
    busOp,          \* the bus operation performed last
    \* the subscription functions (src/lib/content.ts, src/lib/transactions.ts)
    tableVer,       \* contents of the watched table, as the number of writes made to it
    subs,           \* per subscription instance: cancelled flag, channel, callback invocations
    queries,        \* the select queries in flight
    \* a consumer attached to the bus and to a subscription (the wallet screen)
    returned,       \* the writes whose mutation call has returned to its caller
    events,         \* the bus events the consumer received, each with the number of
                    \* subscription deliveries it had received before
    \* the content functions (src/lib/content.ts)
    offers,         \* the offers table: id -> row
    slides,         \* the slides table: id -> row
    request,        \* the gateway write a content function has sent and that is not answered yet
    contentOp,      \* the content function called last, and what its caller got
    gwResult,       \* the gateway write answered last, and how
    \* the profile functions (src/lib/profile.ts)
    profiles,       \* the profiles table: id -> row
    profileOp,      \* the upsertProfile call completed last
    \* the home screen (src/app/(tabs)/index.tsx)
    homeUser,       \* useAuth().user: Null or Some(user id)
    allOffers,      \* the offers list delivered last
    paidOfferIds,   \* ids of the offers the user has a paid transaction for
    homeItems,      \* the user's transactions delivered last
    \* the handles of the event bus, one by one (src/lib/txEvents.ts)
    issued,         \* the handles returned so far: handle number -> its callback
    lastHandle,     \* the handle called last, 0 when none was
    \* the wallet screen's list (src/unnamed/part_001)
    txs,            \* useState<Transaction[]>: the held list
    walletOp,       \* what reached the screen last: an event or a delivery
    \* the in-memory wallet store (src/lib/wallet.ts)
    store,          \* let transactions: the entries, newest additions first
    storeSubs,      \* const subs: the subscribed callbacks in insertion order
    storeNow,       \* the clock reading of the latest addition
    adds,           \* number of addTransactionPending calls so far
    storeOp         \* the call made last, and the callback calls it made

txVars == <<transactions, now, pc, local, last, lastEvent, calls, everPaid, scenario>>
busVars == <<listeners, handles, emitting, emits, snapshot, deliveries, emitThrew, removed, busOp>>
\* the state the transaction functions do not touch
subVars == <<tableVer, subs, queries>>
walVars == <<returned, events>>
conVars == <<offers, slides, request, contentOp, gwResult>>
proVars == <<profiles, profileOp>>
homeVars == <<homeUser, allOffers, paidOfferIds, homeItems>>
hdlVars == <<issued, lastHandle>>
listVars == <<txs, walletOp>>
storeVars == <<store, storeSubs, storeNow, adds, storeOp>>
outside == <<busVars, subVars, walVars, conVars, proVars, homeVars, hdlVars, listVars, storeVars>>
\* the state the event bus does not touch, and the state the subscriptions do not touch
offBus == <<txVars, subVars, walVars, conVars, proVars, homeVars, hdlVars, listVars, storeVars>>
offSub == <<txVars, busVars, walVars, conVars, proVars, homeVars, hdlVars, listVars, storeVars>>
offContent == <<txVars, busVars, subVars, walVars, proVars, homeVars, hdlVars, listVars, storeVars>>
offProfile == <<txVars, busVars, subVars, walVars, conVars, homeVars, hdlVars, listVars, storeVars>>
offHome == <<txVars, busVars, subVars, walVars, conVars, proVars, hdlVars, listVars, storeVars>>
vars == <<txVars, busVars, subVars, walVars, conVars, proVars, homeVars, hdlVars, listVars, storeVars>>

\* ------------------------------------------------------------ pure helpers
\* a ?? b
Coalesce_FoundFirst(a, b) == IF b # Null THEN b ELSE a
Coalesce(a, b) == IF a # Null THEN a ELSE b

Columns == {"id", "user_id", "offer_id", "offer_title", "offer_icon_url", "amount",
            "status", "proof_url", "notes", "reviewed_by", "reviewed_at", "created_at"}

\* mapRow copies the columns of the gateway row one by one
mapRow(r) == [c \in Columns |-> r[c]]

\* { ...row, ...patch }: the keys of patch win
Overlay(row, patch) ==
    [c \in DOMAIN row |-> IF c \in DOMAIN patch THEN patch[c] ELSE row[c]]

Ids == DOMAIN transactions

GatewayUpdate_FirstWriteWins(table, id, patch) ==
    [i \in DOMAIN table |->
        IF table[i].id = id /\ table[i].status = "pending"
        THEN Overlay(table[i], patch) ELSE table[i]]
\* gateway: update(patch).eq('id', id)
GatewayUpdate(table, id, patch) ==
    [i \in DOMAIN table |-> IF table[i].id = id THEN Overlay(table[i], patch) ELSE table[i]]

\* gateway: insert(payload); id and created_at are assigned by the gateway
GatewayInsert(table, payload, t) ==
    Append(table, Overlay([c \in Columns |-> Null],
                          payload @@ [id |-> Len(table) + 1, created_at |-> t,
                                      notes |-> Null, reviewed_by |-> Null,
                                      reviewed_at |-> Null]))

\* status of the row with the given id, "none" when there is no such row
StatusOf(table, id) == IF id \in DOMAIN table THEN table[id].status ELSE "none"

PaidNow(table) == {i \in DOMAIN table : table[i].status = "paid"}

\* rows of the pair (u, o)
PairRows(u, o) == {i \in Ids : transactions[i].user_id = u /\ transactions[i].offer_id = Some(o)}

\* ------------------------------------------------------------------- Init
NoResult ==
    [proc |-> "none", op |-> "none", n |-> 0, args |-> Null, via |-> "none", was |-> "none",
     outcome |-> "none", tx |-> Null, gw |-> "none", emitted |-> Null]
NoLocal == [input |-> Null, existing |-> Null, n |-> 0]

InitTx ==
    /\ transactions = <<>>
    /\ now = 1
    /\ pc = [p \in Procs |-> "idle"]
    /\ local = [p \in Procs |-> NoLocal]
    /\ last = NoResult
    /\ lastEvent = Null
    /\ calls = 0
    /\ everPaid = {}
    /\ scenario = 0

NoBusOp == [op |-> "none", cb |-> "none", effect |-> <<"none">>]

InitBus ==
    /\ listeners = <<>>
    /\ handles = {}
    /\ emitting = Null
    /\ emits = 0
    /\ snapshot = <<>>
    /\ deliveries = <<>>
    /\ emitThrew = {}
    /\ removed = {}
    /\ busOp = NoBusOp

Instances == {"s1", "s2"}      \* subscription instances
Kinds == {"list", "item"}      \* list subscriptions, and subscribeOfferById
\* the second instance is a list subscription that makes its initial load only
KindsOf(i) == IF i = "s1" THEN Kinds ELSE {"list"}
Quota(i) == IF i = "s1" THEN MaxQueries ELSE 1

NoSub ==
    [kind |-> "none", cancelled |-> FALSE, channel |-> FALSE, notifs |-> 0,
     issued |-> 0, delivered |-> <<>>, dropped |-> 0, raised |-> 0]

InitSub ==
    /\ tableVer = 0
    /\ subs = [i \in Instances |-> NoSub]
    /\ queries = {}

InitWallet ==
    /\ returned = {}
    /\ events = <<>>

NoContentOp == [op |-> "none", id |-> "none", returned |-> Null, raised |-> FALSE]
NoGwResult == [op |-> "none", id |-> "none", outcome |-> "none"]

InitContent ==
    /\ offers = <<>>
    /\ slides = <<>>
    /\ request = Null
    /\ contentOp = NoContentOp
    /\ gwResult = NoGwResult

NoProfileOp == [id |-> "none", input |-> <<>>, payload |-> <<>>, outcome |-> "none"]

InitProfile ==
    /\ profiles = <<>>
    /\ profileOp = NoProfileOp

\* the seeded entries; timestamps count from the oldest one, the clock reads
\* more than any of them when the module is loaded
Seeds ==
    << [id |-> "seed-1", status |-> "paid", amount |-> 5, timestamp |-> 1],
       [id |-> "seed-2", status |-> "paid", amount |-> 7, timestamp |-> 3],
       [id |-> "seed-3", status |-> "pending", amount |-> 6, timestamp |-> 5],
       [id |-> "seed-4", status |-> "rejected", amount |-> 7, timestamp |-> 4],
       [id |-> "seed-5", status |-> "paid", amount |-> 8, timestamp |-> 3],
       [id |-> "seed-6", status |-> "pending", amount |-> 10, timestamp |-> 6] >>

NoStoreOp == [kind |-> "none", arg |-> "none", calls |-> <<>>]

InitStore ==
    /\ store = Seeds
    /\ storeSubs = <<>>
    /\ storeNow = 7
    /\ adds = 0
    /\ storeOp = NoStoreOp

NoWalletOp == [kind |-> "none", tx |-> <<>>, items |-> <<>>]

InitList ==
    /\ txs = <<>>
    /\ walletOp = NoWalletOp

InitHandles ==
    /\ issued = <<>>
    /\ lastHandle = 0

InitHome ==
    /\ homeUser = <<>>
    /\ allOffers = <<>>
    /\ paidOfferIds = {}
    /\ homeItems = <<>>

Init ==
    /\ InitTx /\ InitBus /\ InitSub /\ InitWallet
    /\ InitContent /\ InitProfile /\ InitHome /\ InitHandles /\ InitList
    /\ InitStore

\* ------------------------------------------------------------------ clock
Tick ==
    /\ now < MaxTime
    /\ now' = now + 1
    /\ UNCHANGED <<transactions, pc, local, last, lastEvent, calls, everPaid, scenario, outside>>

\* ------------------------------------- createOrReuseActiveTransaction
\* variants of the find filter: only pending rows; rows of any status; rows of any user
FindMatches_PendingOnly(table, input) ==
    {i \in DOMAIN table : /\ table[i].user_id = input.userId
                          /\ table[i].offer_id = Some(input.offerId)
                          /\ table[i].status = "pending"}

FindMatches_AnyStatus(table, input) ==
    {i \in DOMAIN table : /\ table[i].user_id = input.userId
                          /\ table[i].offer_id = Some(input.offerId)}

FindMatches_AnyUser(table, input) ==
    {i \in DOMAIN table : /\ table[i].offer_id = Some(input.offerId)
                          /\ table[i].status # "paid"}

\* .eq('user_id').eq('offer_id').neq('status','paid')
FindMatches(table, input) ==
    {i \in DOMAIN table : /\ table[i].user_id = input.userId
                          /\ table[i].offer_id = Some(input.offerId)
                          /\ table[i].status # "paid"}

FindLatest_Oldest(table, input) ==
    {i \in FindMatches(table, input) :
        \A j \in FindMatches(table, input) : table[i].created_at <= table[j].created_at}
\* .order('created_at', desc).limit(1): the rows that can come first
FindLatest(table, input) ==
    {i \in FindMatches(table, input) :
        \A j \in FindMatches(table, input) : table[j].created_at <= table[i].created_at}

\* ---------------------------------------------- the end-to-end scenario
\* u1 initiates o1 (amount 5); the admin marks t1 paid; u1 initiates o1 again
ScenarioInput ==
    [userId |-> "u1", offerId |-> "o1",
     offerTitle |-> Some("Offer"), offerIconUrl |-> Null, amount |-> Some(5)]
ScenarioReview == [id |-> 1, status |-> "paid", options |-> Some([reviewed_by |-> Some("admin1")])]
ScenarioCalls ==
    << [op |-> "createOrReuse", args |-> ScenarioInput],
       [op |-> "updateStatus", args |-> ScenarioReview],
       [op |-> "createOrReuse", args |-> ScenarioInput] >>

\* the scenario advances when the call that completes is its next call and succeeds
Advance(op, args, ok) ==
    IF /\ scenario >= 0
       /\ scenario < Len(ScenarioCalls)
       /\ ok
       /\ ScenarioCalls[scenario + 1].op = op
       /\ ScenarioCalls[scenario + 1].args = args
    THEN scenario + 1
    ELSE -1

\* the call throws: nothing is published
Fail_Publishes(p, op, n, args, via, was, gw) ==
    /\ pc' = [pc EXCEPT ![p] = "idle"]
    /\ local' = [local EXCEPT ![p] = NoLocal]
    /\ last' = [proc |-> p, op |-> op, n |-> n, args |-> Some(args), via |-> via, was |-> was,
                outcome |-> "error", tx |-> Null, gw |-> gw, emitted |-> lastEvent]
    /\ scenario' = Advance(op, args, FALSE)
    /\ lastEvent' = Null
\* throw error: the call ends at the failing gateway step, emitTransaction is not reached
Fail(p, op, n, args, via, was, gw) ==
    /\ pc' = [pc EXCEPT ![p] = "idle"]
    /\ local' = [local EXCEPT ![p] = NoLocal]
    /\ last' = [proc |-> p, op |-> op, n |-> n, args |-> Some(args), via |-> via, was |-> was,
                outcome |-> "error", tx |-> Null, gw |-> gw, emitted |-> Null]
    /\ scenario' = Advance(op, args, FALSE)
    /\ UNCHANGED lastEvent

\* emitTransaction(tx); return tx
Return(p, op, n, args, via, was, tx, gw) ==
    /\ pc' = [pc EXCEPT ![p] = "idle"]
    /\ local' = [local EXCEPT ![p] = NoLocal]
    /\ last' = [proc |-> p, op |-> op, n |-> n, args |-> Some(args), via |-> via, was |-> was,
                outcome |-> "ok", tx |-> Some(tx), gw |-> gw, emitted |-> Some(tx)]
    /\ scenario' = Advance(op, args, TRUE)
    /\ lastEvent' = Some(tx)

\* step 1: the find query
CreateOrReuseFind(p, input, gw) ==
    /\ pc[p] = "idle"
    /\ calls < MaxCalls
    /\ calls' = calls + 1
    /\ UNCHANGED <<transactions, now, everPaid, outside>>
    /\ IF gw = "error"
       THEN Fail(p, "createOrReuse", calls', input, "find", "none", gw)
       ELSE /\ \E ex \in (IF FindLatest(transactions, input) = {}
                          THEN {Null}
                          ELSE {Some(transactions[i]) : i \in FindLatest(transactions, input)}) :
                  /\ local' = [local EXCEPT ![p] = [input |-> Some(input), existing |-> ex,
                                                    n |-> calls']]
                  /\ pc' = [pc EXCEPT ![p] = IF ex # Null THEN "update" ELSE "insert"]
            /\ UNCHANGED <<last, lastEvent, scenario>>

\* variant of the reuse patch that clears the notes with the review
ReusePatch_ClearsNotes(input, existing) ==
    [status |-> "pending",
     offer_title |-> Coalesce(input.offerTitle, existing.offer_title),
     offer_icon_url |-> Coalesce(input.offerIconUrl, existing.offer_icon_url),
     amount |-> Coalesce(input.amount, existing.amount),
     notes |-> Null,
     reviewed_at |-> Null,
     reviewed_by |-> Null]

\* variant of the reuse patch that does not clear the reviewer
ReusePatch_KeepsReviewer(input, existing) ==
    [status |-> "pending",
     offer_title |-> Coalesce(input.offerTitle, existing.offer_title),
     offer_icon_url |-> Coalesce(input.offerIconUrl, existing.offer_icon_url),
     amount |-> Coalesce(input.amount, existing.amount),
     reviewed_at |-> Null,
     reviewed_by |-> existing.reviewed_by]

ReusePatch(input, existing) ==
    [status |-> "pending",
     offer_title |-> Coalesce(input.offerTitle, existing.offer_title),
     offer_icon_url |-> Coalesce(input.offerIconUrl, existing.offer_icon_url),
     amount |-> Coalesce(input.amount, existing.amount),
     reviewed_at |-> Null,
     reviewed_by |-> Null]

\* step 2, reuse path: update(patch).eq('id', id).select('*').limit(1)
DegradedReuseRow_Unpatched(existing, patch) == mapRow(existing)
\* the update returned no row: mapRow({ ...existing, ...patch, id: existing.id })
DegradedReuseRow(existing, patch) == mapRow(Overlay(existing, patch))

CreateOrReuseUpdate(p, gw) ==
    /\ pc[p] = "update"
    /\ LET input == local[p].input[1]
           existing == local[p].existing[1]
           id == existing.id
           patch == ReusePatch(input, existing)
       IN IF gw = "error"
          THEN /\ Fail(p, "createOrReuse", local[p].n, input, "update", StatusOf(transactions, id), gw)
               /\ UNCHANGED transactions
          ELSE /\ transactions' = GatewayUpdate(transactions, id, patch)
               /\ IF gw = "norow"
                  THEN Return(p, "createOrReuse", local[p].n, input, "update",
                              StatusOf(transactions, id), DegradedReuseRow(existing, patch), gw)
                  ELSE Return(p, "createOrReuse", local[p].n, input, "update",
                              StatusOf(transactions, id), mapRow(transactions'[id]), gw)
    /\ UNCHANGED <<now, calls, everPaid, outside>>

\* ------------------------------------------------ createPendingTransaction
PendingPayload(input) ==
    [user_id |-> input.userId,
     offer_id |-> Some(input.offerId),
     offer_title |-> input.offerTitle,
     offer_icon_url |-> input.offerIconUrl,
     amount |-> input.amount,
     status |-> "pending",
     proof_url |-> IF "proofUrl" \in DOMAIN input THEN input["proofUrl"] ELSE Null]

\* the object synthesized when the insert returns no row
SynthesizedRow(payload, t) ==
    Overlay([c \in Columns |-> Null], payload @@ [id |-> UnknownId, created_at |-> t])

\* step 2, insert path: insert(payload).select('*').limit(1)
CreatePendingInsert(p, gw) ==
    /\ pc[p] = "insert"
    /\ LET input == local[p].input[1]
           payload == PendingPayload(input)
       IN IF gw = "error"
          THEN /\ Fail(p, "createOrReuse", local[p].n, input, "insert", "none", gw)
               /\ UNCHANGED transactions
          ELSE /\ transactions' = GatewayInsert(transactions, payload, now)
               /\ IF gw = "norow"
                  THEN Return(p, "createOrReuse", local[p].n, input, "insert", "none",
                              mapRow(SynthesizedRow(payload, now)), gw)
                  ELSE Return(p, "createOrReuse", local[p].n, input, "insert", "none",
                              mapRow(transactions'[Len(transactions')]), gw)
    /\ UNCHANGED <<now, calls, everPaid, outside>>

\* createPendingTransaction(input) called directly: one insert, then the return
CreatePendingTransaction(p, input, gw) ==
    /\ pc[p] = "idle"
    /\ calls < MaxCalls
    /\ calls' = calls + 1
    /\ LET payload == PendingPayload(input)
       IN IF gw = "error"
          THEN /\ Fail(p, "createPending", calls', input, "insert", "none", gw)
               /\ UNCHANGED transactions
          ELSE /\ transactions' = GatewayInsert(transactions, payload, now)
               /\ IF gw = "norow"
                  THEN Return(p, "createPending", calls', input, "insert", "none",
                              mapRow(SynthesizedRow(payload, now)), gw)
                  ELSE Return(p, "createPending", calls', input, "insert", "none",
                              mapRow(transactions'[Len(transactions')]), gw)
    /\ UNCHANGED <<now, everPaid, outside>>

\* ------------------------------------------------- updateTransactionStatus
\* the keys of the options object that are written whatever the status
SuppliedKeys(status, options) ==
    LET base == [status |-> status]
    IN IF options = Null THEN base
       ELSE [k \in DOMAIN options[1] |-> options[1][k]] @@ base

\* variant that stamps the time for every status, pending included
StatusPatch_AlwaysStamps(status, options, t) ==
    IF options # Null /\ "reviewed_at" \notin DOMAIN options[1]
    THEN [reviewed_at |-> Some(t)] @@ SuppliedKeys(status, options)
    ELSE SuppliedKeys(status, options)

\* variant that never stamps the time
StatusPatch_NeverStamps(status, options, t) == SuppliedKeys(status, options)

\* variant that clears notes and reviewed_by when they are not supplied
StatusPatch_ClearsAbsent(status, options, t) ==
    SuppliedKeys(status, options) @@ [notes |-> Null, reviewed_by |-> Null]

\* options: <<>> when omitted, <<o>> with o a function over the supplied keys
StatusPatch(status, options, t) ==
    LET base == [status |-> status]
    IN IF options = Null THEN base
       ELSE LET o == options[1]
                withNotes == IF "notes" \in DOMAIN o
                             THEN [notes |-> o["notes"]] @@ base ELSE base
                withBy == IF "reviewed_by" \in DOMAIN o
                          THEN [reviewed_by |-> o["reviewed_by"]] @@ withNotes ELSE withNotes
            IN IF "reviewed_at" \in DOMAIN o
               THEN [reviewed_at |-> o["reviewed_at"]] @@ withBy
               ELSE IF status # "pending"
                    THEN [reviewed_at |-> Some(t)] @@ withBy
                    ELSE withBy

\* update(patch).eq('id', id).select('*').single()
SingleFails_OnlyUnknown(gw, found) == ~found
\* .single(): an error unless exactly one row comes back
SingleFails(gw, found) == gw = "norow" \/ ~found

UpdateTransactionStatus(p, id, status, options, gw) ==
    /\ pc[p] = "idle"
    /\ calls < MaxCalls
    /\ calls' = calls + 1
    /\ UNCHANGED <<now, outside>>
    /\ LET patch == StatusPatch(status, options, now)
           args == [id |-> id, status |-> status, options |-> options]
       IN IF gw = "error"
          THEN /\ Fail(p, "updateStatus", calls', args, "single", StatusOf(transactions, id), gw)
               /\ UNCHANGED <<transactions, everPaid>>
          ELSE /\ transactions' = GatewayUpdate(transactions, id, patch)
               /\ everPaid' = everPaid \cup PaidNow(transactions')
               /\ IF SingleFails(gw, id \in Ids)
                  THEN Fail(p, "updateStatus", calls', args, "single", StatusOf(transactions, id), gw)
                  ELSE Return(p, "updateStatus", calls', args, "single", StatusOf(transactions, id),
                              mapRow(transactions'[id]), gw)

\* ------------------------------------------------------------ inputs
GatewayOutcomes == {"ok", "error", "norow"}
FindOutcomes == {"ok", "error"}

CreateInputs ==
    [userId : Users, offerId : Offers,
     offerTitle : {Some("Offer")}, offerIconUrl : {Null}, amount : {Some(5)}]

\* the options objects: each key is absent, or present with null or a value
NoKeys == [k \in {} |-> Null]
NotesChoices == {NoKeys}
ReviewedByChoices == {NoKeys} \cup {[reviewed_by |-> Some(a)] : a \in Admins}
ReviewedAtChoices == {NoKeys} \cup {[reviewed_at |-> v] : v \in {Null} \cup {Some(t) : t \in ExplicitTimes}}
OptionObjects ==
    {n @@ b @@ a : n \in NotesChoices, b \in ReviewedByChoices, a \in ReviewedAtChoices}

StatusOptions == {Null} \cup {Some(o) : o \in OptionObjects}

\* the options the admin screen passes: notes and reviewed_by, never reviewed_at
AdminOptions == {Some([notes |-> n, reviewed_by |-> Some(a)]) : n \in {Null}, a \in Admins}

\* ------------------------------------------------------------------ Next
Find(P) == \E p \in P, input \in CreateInputs, gw \in FindOutcomes : CreateOrReuseFind(p, input, gw)
Reuse(P) == \E p \in P, gw \in GatewayOutcomes : CreateOrReuseUpdate(p, gw)
Insert(P) == \E p \in P, gw \in GatewayOutcomes : CreatePendingInsert(p, gw)
SetStatus(P, Opts) ==
    \E p \in P, id \in 1..(Len(transactions) + 1), status \in Statuses,
       options \in Opts, gw \in GatewayOutcomes :
        UpdateTransactionStatus(p, id, status, options, gw)

Next ==
    \/ Tick
    \/ Find(Procs)
    \/ Reuse(Procs)
    \/ Insert(Procs)
    \/ SetStatus(Procs, AdminOptions \cup {Null})

Spec == Init /\ [][Next]_vars

\* every call runs to completion before the next one starts
NextSeq ==
    \/ Tick
    \/ Find(SeqProcs)
    \/ Reuse(SeqProcs)
    \/ Insert(SeqProcs)
    \/ SetStatus(SeqProcs, StatusOptions)

SpecSeq == Init /\ [][NextSeq]_vars

\* one call path whose inputs supply or omit each denormalized field
ReuseInputs ==
    [userId : {"u1"}, offerId : Offers,
     offerTitle : {Null, Some("Offer"), Some("New")},
     offerIconUrl : {Null, Some("icon")},
     amount : {Null, Some(0), Some(5)}]

FindWith(P, Inputs) ==
    \E p \in P, input \in Inputs, gw \in FindOutcomes : CreateOrReuseFind(p, input, gw)

NextReuse ==
    \/ FindWith(SeqProcs, ReuseInputs)
    \/ Reuse(SeqProcs)
    \/ Insert(SeqProcs)

SpecReuse == Init /\ [][NextReuse]_vars

\* one call path, at one clock reading, whose reviews supply, clear or omit
\* notes and reviewed_by, and whose rows may carry a proof
PendingInputs ==
    [userId : {"u1"}, offerId : Offers, offerTitle : {Some("Offer")},
     offerIconUrl : {Null}, amount : {Some(5)}, proofUrl : {Some("proof")}]

ReviewOptions ==
    {Null} \cup
    {Some(n @@ b) :
        n \in {NoKeys, [notes |-> Null], [notes |-> Some("note")]},
        b \in {NoKeys, [reviewed_by |-> Null], [reviewed_by |-> Some("admin1")]}}

NextReview ==
    \/ \E p \in SeqProcs, input \in PendingInputs, gw \in GatewayOutcomes :
          CreatePendingTransaction(p, input, gw)
    \/ Find(SeqProcs)
    \/ Reuse(SeqProcs)
    \/ Insert(SeqProcs)
    \/ SetStatus(SeqProcs, ReviewOptions)

SpecReview == Init /\ [][NextReview]_vars

TypeOK ==
    /\ calls \in 0..MaxCalls
    /\ now \in 1..MaxTime
    /\ \A i \in Ids : transactions[i].id = i /\ transactions[i].status \in Statuses
    /\ \A p \in Procs : pc[p] \in {"idle", "update", "insert"}
    /\ scenario \in -1..Len(ScenarioCalls)
    /\ everPaid \subseteq Ids

\* ------------------------------------------------------- shared vocabulary
NonPaid(u, o) == {i \in PairRows(u, o) : transactions[i].status # "paid"}

\* p completes a call in this step
Completes(p) == last' # last /\ last'.proc = p

\* p's find step returns in this step and the call goes on
FindReturns(p) == pc[p] = "idle" /\ pc'[p] \in {"update", "insert"}

Reviewed(row) == row.reviewed_at # Null \/ row.reviewed_by # Null

\* ---------------------------------------------------------------------- C1
\* C1: when createOrReuseActiveTransaction calls run one after the other and
\* no row of a pair has ever been paid, the pair never has more than one row,
\* and it has exactly one row after every call for the pair that returned.
C1_OneRowPerPair ==
    \A u \in Users, o \in Offers :
        PairRows(u, o) \cap everPaid = {} =>
            /\ Cardinality(PairRows(u, o)) <= 1
            /\ \A p \in Procs :
                 ( /\ pc[p] = "idle"
                   /\ last.proc = p
                   /\ last.op = "createOrReuse"
                   /\ last.outcome = "ok"
                   /\ last.args[1].userId = u
                   /\ last.args[1].offerId = o )
                 => Cardinality(PairRows(u, o)) = 1

\* a second call for the pair has returned through the reuse path
C1_Witness ==
    /\ pc["p1"] = "idle"
    /\ last.op = "createOrReuse"
    /\ last.outcome = "ok"
    /\ last.via = "update"
    /\ last.args[1].userId = "u1"
    /\ last.args[1].offerId = "o1"
    /\ everPaid = {}
    /\ Cardinality(PairRows("u1", "o1")) = 1

\* ---------------------------------------------------------------------- C2
\* C2: in every reachable state each (userId, offerId) has at most one row
\* whose status is not paid.
C2_AtMostOneNonPaid ==
    \A u \in Users, o \in Offers : Cardinality(NonPaid(u, o)) <= 1

\* ---------------------------------------------------------------------- C3
\* C3: when the pair's only non-paid row is a rejected row, the find step of
\* a call for the pair selects it, and the update step that returns leaves
\* that row, with the same id, pending with reviewed_at and reviewed_by null,
\* returns it, and inserts nothing.
C3_ReuseResetsRejected ==
    [][\A p \in Procs :
        /\ FindReturns(p) =>
             LET input == local'[p].input[1]
                 np == NonPaid(input.userId, input.offerId)
             IN (\E r \in np : np = {r} /\ transactions[r].status = "rejected") =>
                    /\ pc'[p] = "update"
                    /\ local'[p].existing[1].id \in np
        /\ ( /\ pc[p] = "update"
             /\ Completes(p)
             /\ last'.outcome = "ok"
             /\ transactions[local[p].existing[1].id].status = "rejected" ) =>
             LET id == local[p].existing[1].id
             IN /\ Len(transactions') = Len(transactions)
                /\ transactions'[id].id = id
                /\ transactions'[id].status = "pending"
                /\ transactions'[id].reviewed_at = Null
                /\ transactions'[id].reviewed_by = Null
                /\ last'.tx[1].id = id
                /\ last'.tx[1].status = "pending"
                /\ last'.tx[1].reviewed_at = Null
                /\ last'.tx[1].reviewed_by = Null
      ]_vars

\* a reviewed, rejected row has been re-opened by a call that returned it
C3_Witness ==
    /\ last.op = "createOrReuse"
    /\ last.via = "update"
    /\ last.outcome = "ok"
    /\ last.was = "rejected"
    /\ last.tx[1].status = "pending"
    /\ ~Reviewed(last.tx[1])
    /\ transactions[last.tx[1].id].status = "pending"
    /\ ~Reviewed(transactions[last.tx[1].id])

\* ---------------------------------------------------------------------- C4
\* C4: when the pair has rows and all of them are paid, the find step of a
\* call for the pair selects none of them, and the insert step adds one
\* pending row with a new id and leaves every existing row as it was.
C4_PaidNotReused ==
    [][\A p \in Procs :
        /\ FindReturns(p) =>
             LET input == local'[p].input[1]
             IN ( /\ PairRows(input.userId, input.offerId) # {}
                  /\ NonPaid(input.userId, input.offerId) = {} ) => pc'[p] = "insert"
        /\ ( /\ pc[p] = "insert"
             /\ Completes(p)
             /\ last'.outcome = "ok" ) =>
             LET new == Len(transactions) + 1
             IN /\ DOMAIN transactions' = Ids \cup {new}
                /\ \A i \in Ids : transactions'[i] = transactions[i]
                /\ \A i \in Ids : transactions'[new].id # transactions[i].id
                /\ transactions'[new].status = "pending"
                /\ transactions'[new].user_id = local[p].input[1].userId
                /\ transactions'[new].offer_id = Some(local[p].input[1].offerId)
      ]_vars

\* a pending row has been inserted next to a paid row of the same pair
C4_Witness ==
    /\ last.op = "createOrReuse"
    /\ last.via = "insert"
    /\ last.outcome = "ok"
    /\ \E i, j \in PairRows("u1", "o1") :
          /\ i # j
          /\ transactions[i].status = "paid"
          /\ transactions[j].status = "pending"

\* ---------------------------------------------------------------------- C5
\* C5: the update step of createOrReuseActiveTransaction never changes the
\* status of a row that is paid when the update is applied.
C5_UpdateLeavesPaid ==
    [][\A p \in Procs :
        (pc[p] = "update" /\ pc'[p] = "idle") =>
            LET id == local[p].existing[1].id
            IN transactions[id].status = "paid" => transactions'[id].status = "paid"
      ]_vars

\* ---------------------------------------------------------------------- C6
\* C6: once a row has status paid, no step changes its status.
C6_PaidIsTerminal ==
    [][\A i \in Ids : transactions[i].status = "paid" => transactions'[i].status = "paid"]_vars

\* ---------------------------------------------------------------------- C7
\* p's update step of a createOrReuseActiveTransaction call for the pair of row i
ReuseStepFor(p, i) ==
    /\ pc[p] = "update"
    /\ pc'[p] = "idle"
    /\ local[p].existing[1].id = i
    /\ local[p].input[1].userId = transactions[i].user_id
    /\ Some(local[p].input[1].offerId) = transactions[i].offer_id

\* p's updateTransactionStatus(i, 'pending', ...) call
PendingStepFor(p, i) ==
    /\ Completes(p)
    /\ last'.op = "updateStatus"
    /\ last'.args[1].id = i
    /\ last'.args[1].status = "pending"

Reopened(i) == transactions[i].status = "rejected" /\ transactions'[i].status = "pending"

\* C7 (as claimed): a row goes from rejected to pending only in the update
\* step of a createOrReuseActiveTransaction call for the row's pair.
C7_ReopenOnlyByReuse ==
    [][\A i \in Ids : Reopened(i) => \E p \in Procs : ReuseStepFor(p, i)]_vars

\* C7 (amended): a row goes from rejected to pending only in the update step
\* of a createOrReuseActiveTransaction call for the row's pair or in an
\* updateTransactionStatus call for that row with status pending.
C7_ReopenByReuseOrPending ==
    [][\A i \in Ids : Reopened(i) =>
          \E p \in Procs : ReuseStepFor(p, i) \/ PendingStepFor(p, i)]_vars

\* a rejected row has been re-opened by a createOrReuseActiveTransaction call
C7_Witness ==
    \E p \in Procs :
        /\ last.proc = p
        /\ last.op = "createOrReuse"
        /\ last.via = "update"
        /\ last.was = "rejected"
        /\ transactions[last.tx[1].id].status = "pending"

\* ---------------------------------------------------------------------- C8
\* p's updateTransactionStatus call completes in this step
StatusStep(p) == Completes(p) /\ last'.op = "updateStatus"

SuppliesReviewedAt(options) == options # Null /\ "reviewed_at" \in DOMAIN options[1]

\* C8: an updateTransactionStatus call with status paid or rejected and no
\* reviewed_at supplied (options without it, or no options) that succeeds
\* leaves the row's reviewed_at at the current time.
C8_ReviewStamped ==
    [][\A p \in Procs :
        ( /\ StatusStep(p)
          /\ last'.outcome = "ok"
          /\ last'.args[1].status \in {"paid", "rejected"}
          /\ ~SuppliesReviewedAt(last'.args[1].options) ) =>
            transactions'[last'.args[1].id].reviewed_at = Some(now)
      ]_vars

\* ---------------------------------------------------------------------- C9
\* C9: an updateTransactionStatus call with status pending and no reviewed_at
\* supplied leaves the row's reviewed_at as it was; a supplied reviewed_at,
\* null included, is written as given whatever the status.
C9_PendingNotStamped ==
    [][\A p \in Procs :
        StatusStep(p) =>
            LET a == last'.args[1]
            IN /\ ( /\ a.status = "pending"
                    /\ ~SuppliesReviewedAt(a.options)
                    /\ a.id \in Ids ) =>
                      transactions'[a.id].reviewed_at = transactions[a.id].reviewed_at
               /\ ( /\ SuppliesReviewedAt(a.options)
                    /\ last'.outcome = "ok" ) =>
                      /\ transactions'[a.id].reviewed_at = a.options[1]["reviewed_at"]
                      /\ last'.tx[1].reviewed_at = a.options[1]["reviewed_at"]
      ]_vars

\* a reviewed row was set back to pending with options that carry no
\* reviewed_at, at a later time than its review, and kept the review time
C9_Witness ==
    /\ last.op = "updateStatus"
    /\ last.outcome = "ok"
    /\ last.args[1].status = "pending"
    /\ last.args[1].options # Null
    /\ ~SuppliesReviewedAt(last.args[1].options)
    /\ last.tx[1].reviewed_at # Null
    /\ last.tx[1].reviewed_at # Some(now)
    /\ last.tx[1].reviewed_at \notin {Some(t) : t \in ExplicitTimes}

\* --------------------------------------------------------------------- C10
\* C10: from no rows, u1 initiating o1 leaves t1 pending; marking t1 paid
\* with reviewedBy admin1 leaves t1 paid with reviewed_at set and reviewed_by
\* admin1; u1 initiating o1 again leaves a pending t2 with another id and t1
\* paid.
C10_EndToEnd ==
    /\ scenario = 1 =>
         /\ Len(transactions) = 1
         /\ transactions[1].status = "pending"
         /\ transactions[1].user_id = "u1"
         /\ transactions[1].offer_id = Some("o1")
    /\ scenario \in {2, 3} =>
         /\ transactions[1].status = "paid"
         /\ transactions[1].reviewed_at \in {Some(t) : t \in 1..now}
         /\ transactions[1].reviewed_by = Some("admin1")
    /\ scenario = 3 =>
         /\ Len(transactions) = 2
         /\ transactions[2].id # transactions[1].id
         /\ transactions[2].status = "pending"
         /\ transactions[2].user_id = "u1"
         /\ transactions[2].offer_id = Some("o1")
         /\ last.tx[1].status = "pending"

\* the three calls of the scenario have completed
C10_Witness == scenario = 3

-----------------------------------------------------------------------------
\* The local event bus (src/lib/txEvents.ts).

Range(f) == {f[k] : k \in DOMAIN f}

\* Set.prototype.add: an element already present keeps its place
SetAdd_Appends(ls, cb) == Append(ls, cb)
\* Set.prototype.add: an element already in the Set keeps its place
SetAdd(ls, cb) == IF cb \in Range(ls) THEN ls ELSE Append(ls, cb)

SetDelete_DropsFirst(ls, cb) == IF ls = <<>> THEN ls ELSE Tail(ls)
\* Set.prototype.delete
SetDelete(ls, cb) == SelectSeq(ls, LAMBDA x : x # cb)

\* what a callback does while it runs: nothing, or a registration, or a call of a handle
Effects ==
    {<<"none">>} \cup {<<"add", c>> : c \in Callbacks} \cup {<<"remove", c>> : c \in Callbacks}

ListenersAfter(ls, effect) ==
    CASE effect[1] = "add" -> SetAdd(ls, effect[2])
      [] effect[1] = "remove" -> SetDelete(ls, effect[2])
      [] OTHER -> ls

HandlesAfter(hs, effect) == IF effect[1] = "add" THEN hs \cup {effect[2]} ELSE hs

RemovedAfter(rm, effect) ==
    CASE effect[1] = "add" -> rm \ {effect[2]}
      [] effect[1] = "remove" -> rm \cup {effect[2]}
      [] OTHER -> rm

\* variant that skips a callback de-registered while the loop runs
RemainingCallbacks_SkipsRemoved(rest, ls, effect) ==
    IF effect[1] = "remove" THEN SetDelete(rest, effect[2]) ELSE rest

RemainingCallbacks_Live(rest, ls, effect) ==
    CASE effect[1] = "add" /\ effect[2] \notin Range(ls) -> SetAdd(rest, effect[2])
      [] effect[1] = "remove" -> SetDelete(rest, effect[2])
      [] OTHER -> rest
\* the loop walks Array.from(listeners), a copy: what a callback does to the Set
\* does not change the callbacks still to call
RemainingCallbacks(rest, ls, effect) == rest

AfterCallback_NoCatch(threw, rest) ==
    [queue |-> IF threw THEN <<>> ELSE rest, propagate |-> threw]
\* try { cb(tx) } catch {}: a throwing callback is swallowed and the loop goes on
AfterCallback(threw, rest) == [queue |-> rest, propagate |-> FALSE]

BusIdle == emitting = Null

\* addTransactionListener(cb), called outside any delivery
AddTransactionListener(cb) ==
    /\ BusIdle
    /\ listeners' = SetAdd(listeners, cb)
    /\ handles' = handles \cup {cb}
    /\ removed' = removed \ {cb}
    /\ busOp' = [op |-> "register", cb |-> cb, effect |-> <<"none">>]
    /\ UNCHANGED <<emitting, emits, snapshot, deliveries, emitThrew, offBus>>

\* the handle returned by addTransactionListener(cb): () => listeners.delete(cb)
CallHandle(cb) ==
    /\ BusIdle
    /\ cb \in handles
    /\ listeners' = SetDelete(listeners, cb)
    /\ removed' = removed \cup {cb}
    /\ busOp' = [op |-> "handle", cb |-> cb, effect |-> <<"none">>]
    /\ UNCHANGED <<handles, emitting, emits, snapshot, deliveries, emitThrew, offBus>>

\* emitTransaction(tx) up to the first callback: Array.from(listeners)
EmitTransaction ==
    /\ BusIdle
    /\ emits < MaxEmits
    /\ emits' = emits + 1
    /\ snapshot' = Append(snapshot, listeners)
    /\ emitting' = IF listeners = <<>> THEN Null
                   ELSE Some([payload |-> emits + 1, queue |-> listeners])
    /\ busOp' = [op |-> "emit", cb |-> "none", effect |-> <<"none">>]
    /\ UNCHANGED <<listeners, handles, deliveries, emitThrew, removed, offBus>>

\* one turn of the loop of emitTransaction: the next callback runs, does what it
\* does to the bus, and returns or throws
Deliver(effect, threw) ==
    /\ emitting # Null
    /\ effect[1] = "remove" => effect[2] \in handles
    /\ threw => Head(emitting[1].queue) \in Throwing
    /\ effect[1] # "none" => Head(emitting[1].queue) \in Acting
    /\ LET payload == emitting[1].payload
           cb == Head(emitting[1].queue)
           rest == RemainingCallbacks(Tail(emitting[1].queue), listeners, effect)
           after == AfterCallback(threw, rest)
       IN  /\ deliveries' = Append(deliveries, [cb |-> cb, payload |-> payload, threw |-> threw])
           /\ listeners' = ListenersAfter(listeners, effect)
           /\ handles' = HandlesAfter(handles, effect)
           /\ removed' = RemovedAfter(removed, effect)
           /\ emitting' = IF after.queue = <<>> THEN Null
                          ELSE Some([payload |-> payload, queue |-> after.queue])
           /\ emitThrew' = IF after.propagate THEN emitThrew \cup {payload} ELSE emitThrew
           /\ busOp' = [op |-> "deliver", cb |-> cb, effect |-> effect]
    /\ UNCHANGED <<emits, snapshot, offBus>>

NextBus ==
    \/ \E cb \in Callbacks : AddTransactionListener(cb)
    \/ \E cb \in Callbacks : CallHandle(cb)
    \/ EmitTransaction
    \/ \E effect \in Effects, threw \in BOOLEAN : Deliver(effect, threw)

SpecBus == Init /\ [][NextBus]_vars

\* the bus with every returned handle told apart, and callbacks that do
\* nothing to the bus
MaxHandles == 3

\* const h = addTransactionListener(cb)
RegisterForHandle(cb) ==
    /\ BusIdle
    /\ Len(issued) < MaxHandles
    /\ listeners' = SetAdd(listeners, cb)
    /\ issued' = Append(issued, cb)
    /\ handles' = handles \cup {cb}
    /\ removed' = removed \ {cb}
    /\ busOp' = [op |-> "register", cb |-> cb, effect |-> <<"none">>]
    /\ UNCHANGED <<lastHandle, emitting, emits, snapshot, deliveries, emitThrew,
                   txVars, subVars, walVars, conVars, proVars, homeVars, listVars, storeVars>>

\* h(): listeners.delete(cb), cb the callback h was returned for
CallIssuedHandle(h) ==
    /\ BusIdle
    /\ h \in DOMAIN issued
    /\ listeners' = SetDelete(listeners, issued[h])
    /\ lastHandle' = h
    /\ removed' = removed \cup {issued[h]}
    /\ busOp' = [op |-> "handle", cb |-> issued[h], effect |-> <<"none">>]
    /\ UNCHANGED <<issued, handles, emitting, emits, snapshot, deliveries, emitThrew,
                   txVars, subVars, walVars, conVars, proVars, homeVars, listVars, storeVars>>

NextHandles ==
    \/ \E cb \in Callbacks : RegisterForHandle(cb)
    \/ \E h \in 1..MaxHandles : CallIssuedHandle(h)
    \/ EmitTransaction
    \/ \E threw \in BOOLEAN : Deliver(<<"none">>, threw)

SpecHandles == Init /\ [][NextHandles]_vars

\* the loop of emitTransaction is synchronous: once started it runs on
DeliverNext == \E effect \in Effects, threw \in BOOLEAN : Deliver(effect, threw)

SpecBusFair == Init /\ [][NextBus]_vars /\ WF_vars(DeliverNext)

BusTypeOK ==
    /\ Range(listeners) \subseteq Callbacks
    /\ Len(listeners) = Cardinality(Range(listeners))
    /\ handles \subseteq Callbacks
    /\ emits \in 0..MaxEmits
    /\ Len(snapshot) = emits
    /\ emitting # Null => emitting[1].payload = emits /\ emitting[1].queue # <<>>

-----------------------------------------------------------------------------
\* The subscription functions: subscribeSlides, subscribeOffers,
\* subscribeTransactionsForUser, subscribeAllTransactions (kind "list") and
\* subscribeOfferById (kind "item").  The watched table is abstracted to the
\* number of writes made to it; a query result is the table it was run on.

EmptyCollection == 0     \* []
NullItem == 0 - 1        \* null

\* what a successful query returns: the rows, or for fetchOfferById the row or null
QueryResult(kind, ver) ==
    IF kind = "item" /\ ver = 0 THEN NullItem ELSE ver

NewQuery(i, n, trigger) ==
    [inst |-> i, n |-> n, trigger |-> trigger, phase |-> "sent", failed |-> FALSE, data |-> Null]

QueriesOf(i) == {q \in queries : q.inst = i}

InitialLoad_None(i) == {}
\* (async () => { ... await supabase.from(...).select('*') ... })()
InitialLoad(i) == {NewQuery(i, 1, "initial")}

\* subscribeX(cb): cancelled = false, the initial load is started and the
\* channel is registered, in the same synchronous call
Subscribe(i, kind) ==
    /\ subs[i].kind = "none"
    /\ subs' = [subs EXCEPT ![i] = [NoSub EXCEPT !.kind = kind, !.channel = TRUE, !.issued = 1]]
    /\ queries' = queries \cup InitialLoad(i)
    /\ UNCHANGED <<tableVer, offSub>>

\* somebody writes to the watched table: every registered channel is notified
Write ==
    /\ tableVer < MaxWrites
    /\ tableVer' = tableVer + 1
    /\ subs' = [i \in Instances |->
                  IF subs[i].channel THEN [subs[i] EXCEPT !.notifs = @ + 1] ELSE subs[i]]
    /\ UNCHANGED <<queries, offSub>>

PendingAfterNotify_Coalesced(n) == 0
\* one 'postgres_changes' event is one call of the handler
PendingAfterNotify(n) == n - 1

\* the 'postgres_changes' handler up to its await: a full re-query is sent
Notify(i) ==
    /\ subs[i].channel
    /\ subs[i].notifs > 0
    /\ subs[i].issued < Quota(i)
    /\ subs' = [subs EXCEPT ![i].notifs = PendingAfterNotify(@), ![i].issued = @ + 1]
    /\ queries' = queries \cup {NewQuery(i, subs[i].issued + 1, "change")}
    /\ UNCHANGED <<tableVer, offSub>>

\* the gateway runs a query on the table as it is now, or fails it
Execute(i, n, outcome) ==
    /\ \E q \in QueriesOf(i) :
          /\ q.n = n
          /\ q.phase = "sent"
          /\ queries' = (queries \ {q}) \cup
                {[q EXCEPT !.phase = "answered",
                           !.failed = (outcome = "error"),
                           !.data = IF outcome = "error" THEN Null
                                    ELSE Some(QueryResult(subs[i].kind, tableVer))]}
    /\ UNCHANGED <<tableVer, subs, offSub>>

\* variant with one cancellation flag for all the instances
CallbackAllowed_SharedFlag(sub) == \A i \in Instances : ~subs[i].cancelled
CallbackAllowed_Always(sub) == TRUE
\* if (!cancelled) cb(...)
CallbackAllowed(sub) == ~sub.cancelled

Continuation_Unguarded(kind, q) ==
    IF q.data = Null THEN [call |-> FALSE, value |-> EmptyCollection, raised |-> TRUE]
    ELSE [call |-> TRUE, value |-> q.data[1], raised |-> FALSE]
\* what follows the await: data?.map(...) ?? [] for the lists; for
\* subscribeOfferById the row, and null from the catch block
Continuation(kind, q) ==
    [call |-> TRUE,
     value |-> IF q.data # Null THEN q.data[1]
               ELSE IF kind = "item" THEN NullItem ELSE EmptyCollection,
     raised |-> FALSE]

AnsweredBefore_InOrder(q) == \A o \in QueriesOf(q.inst) : o.n >= q.n
\* nothing orders the continuations of one instance: each runs when its own
\* query resolves
AnsweredBefore(q) == TRUE

\* a query resolves and the code after its await runs
Resolve(i, n) ==
    /\ \E q \in QueriesOf(i) :
          /\ q.n = n
          /\ q.phase = "answered"
          /\ AnsweredBefore(q)
          /\ queries' = queries \ {q}
          /\ LET r == Continuation(subs[i].kind, q)
             IN  subs' = [subs EXCEPT ![i] =
                    IF r.raised THEN [@ EXCEPT !.raised = @ + 1]
                    ELSE IF CallbackAllowed(@) /\ r.call
                    THEN [@ EXCEPT !.delivered =
                             Append(@, [n |-> q.n, trigger |-> q.trigger,
                                        value |-> r.value, failed |-> q.failed])]
                    ELSE [@ EXCEPT !.dropped = @ + 1]]
    /\ UNCHANGED <<tableVer, offSub>>

\* the function subscribeX returned: cancelled = true; removeChannel(channel)
Unsubscribe(i) ==
    /\ subs[i].kind # "none"
    /\ subs' = [subs EXCEPT ![i].cancelled = TRUE, ![i].channel = FALSE, ![i].notifs = 0]
    /\ UNCHANGED <<tableVer, queries, offSub>>

QueryOutcomes == {"ok", "error"}
QueryNumbers == 1..MaxQueries

NextSub ==
    \/ \E i \in Instances : \E kind \in KindsOf(i) : Subscribe(i, kind)
    \/ Write
    \/ \E i \in Instances : Notify(i)
    \/ \E i \in Instances, n \in QueryNumbers, outcome \in QueryOutcomes : Execute(i, n, outcome)
    \/ \E i \in Instances, n \in QueryNumbers : Resolve(i, n)
    \/ \E i \in Instances : Unsubscribe(i)

SpecSub == Init /\ [][NextSub]_vars

SubTypeOK ==
    /\ tableVer \in 0..MaxWrites
    /\ \A i \in Instances :
          /\ subs[i].kind \in Kinds \cup {"none"}
          /\ subs[i].issued \in 0..MaxQueries
          /\ subs[i].notifs \in 0..MaxWrites
          /\ subs[i].cancelled => ~subs[i].channel
    /\ \A q \in queries : q.n \in 1..subs[q.inst].issued

-----------------------------------------------------------------------------
\* A consumer attached both to the event bus and to
\* subscribeTransactionsForUser: the wallet screen.  Its effect subscribes and
\* registers the bus listener together and its cleanup undoes both, so it is
\* attached to the bus exactly while its subscription instance is open.  A
\* write is made by a mutation of this process: the gateway applies it (Write)
\* and later the response reaches the caller (MutationReturns).

WalletInstances == {"s1"}
WalletKinds == {"list"}

\* unsub = subscribeTransactionsForUser(...); removeEvt = addTransactionListener(...)
Attached(i) == subs[i].kind # "none" /\ ~subs[i].cancelled

\* the writes the gateway has applied and whose call has not returned yet
Outstanding == (1..tableVer) \ returned

Published_Twice(w) == <<w, w>>
\* const tx = mapRow(...); emitTransaction(tx); return tx
Published(w) == <<w>>

ResponseArrives_BeforeReloads(w) ==
    \A i \in WalletInstances : \A k \in DOMAIN subs[i].delivered :
        ~(subs[i].delivered[k].trigger = "change" /\ subs[i].delivered[k].value >= w)
\* nothing orders the response of the write against the realtime channel
ResponseArrives(w) == TRUE

\* the listener of the wallet screen, called once per published payload
Received(i, payloads) ==
    [k \in 1..Len(payloads) |-> [w |-> payloads[k], at |-> Len(subs[i].delivered)]]

\* the awaited write resolves: the mutation publishes its transaction and returns
MutationReturns(w) ==
    /\ w \in Outstanding
    /\ ResponseArrives(w)
    /\ returned' = returned \cup {w}
    /\ events' = IF \E i \in WalletInstances : Attached(i)
                 THEN events \o Received(CHOOSE i \in WalletInstances : Attached(i), Published(w))
                 ELSE events
    /\ UNCHANGED <<txVars, busVars, subVars, conVars, proVars, homeVars, hdlVars, listVars, storeVars>>

NextWallet ==
    \/ \E i \in WalletInstances, kind \in WalletKinds : Subscribe(i, kind)
    \/ Write
    \/ \E i \in WalletInstances : Notify(i)
    \/ \E i \in WalletInstances, n \in QueryNumbers, outcome \in QueryOutcomes : Execute(i, n, outcome)
    \/ \E i \in WalletInstances, n \in QueryNumbers : Resolve(i, n)
    \/ \E i \in WalletInstances : Unsubscribe(i)
    \/ \E w \in 1..MaxWrites : MutationReturns(w)

SpecWallet == Init /\ [][NextWallet]_vars

WalletTypeOK ==
    /\ returned \subseteq 1..tableVer
    /\ \A k \in DOMAIN events : events[k].w \in returned

-----------------------------------------------------------------------------
\* The content functions (src/lib/content.ts): offers and slides.  A field of
\* an application object is Some(v), or Null when the key is there without a
\* value; a key that is not there is not in the DOMAIN.  A column is Some(v)
\* or Null.

OfferIds == {"o1", "o2"}
SlideIds == {"sl1"}

OfferFields ==
    {"title", "amount", "icon", "label", "description", "steps", "storeUrl", "active",
     "requiresProof"}

ColumnOf(f) ==
    CASE f = "storeUrl" -> "store_url"
      [] f = "requiresProof" -> "requires_proof"
      [] OTHER -> f

OfferColumns == {ColumnOf(f) : f \in OfferFields}

\* input.f ?? d
FieldOr(input, f, d) == IF f \in DOMAIN input /\ input[f] # Null THEN input[f] ELSE d

\* toOfferInsert(input)
toOfferInsert(input) ==
    [title |-> FieldOr(input, "title", Null),
     amount |-> FieldOr(input, "amount", Null),
     icon |-> FieldOr(input, "icon", Null),
     label |-> FieldOr(input, "label", Null),
     description |-> FieldOr(input, "description", Null),
     steps |-> FieldOr(input, "steps", Null),
     store_url |-> FieldOr(input, "storeUrl", Null),
     active |-> FieldOr(input, "active", Some(TRUE)),
     requires_proof |-> FieldOr(input, "requiresProof", Some(FALSE))]

toOfferPatch_NullsAbsent(patch) ==
    [c \in OfferColumns |->
        LET f == CHOOSE g \in OfferFields : ColumnOf(g) = c
        IN  FieldOr(patch, f, Null)]
\* toOfferPatch(patch), as it is sent: a key whose value is undefined is not serialized
toOfferPatch(patch) ==
    LET given == {f \in DOMAIN patch : patch[f] # Null}
    IN  [c \in {ColumnOf(f) : f \in given} |->
            patch[CHOOSE f \in given : ColumnOf(f) = c]]

\* fromOfferRow(r): r.c ?? undefined
fromOfferRow(id, r) == [id |-> id] @@ [f \in OfferFields |-> r[ColumnOf(f)]]

\* the update object of updateSlide: link is null when the key is there without a value
SlideUpdate(patch) ==
    LET given == {f \in DOMAIN patch : patch[f] # Null}
    IN  [c \in given \cup (DOMAIN patch \cap {"link"}) |-> patch[c]]

NoRequest == Null

\* the function returns to its caller: nothing is awaited and nothing is thrown
Call(op, id, result) ==
    /\ contentOp' = [op |-> op, id |-> id, returned |-> result, raised |-> FALSE]
    /\ gwResult' = NoGwResult

\* supabase.from(table).insert / update / delete ... .then(...)
Send(op, table, kind, id, args, body) ==
    request' = Some([op |-> op, table |-> table, kind |-> kind, id |-> id,
                     args |-> args, body |-> body])

\* addOffer(input): the insert is sent and a local object is returned at once
AddOffer(id, input) ==
    /\ request = NoRequest
    /\ Send("addOffer", "offers", "insert", id, input, toOfferInsert(input))
    /\ Call("addOffer", id, Some(fromOfferRow(id, toOfferInsert(input))))
    /\ UNCHANGED <<offers, slides, offContent>>

\* updateOffer(id, patch)
UpdateOffer(id, patch) ==
    /\ request = NoRequest
    /\ Send("updateOffer", "offers", "update", id, patch, toOfferPatch(patch))
    /\ Call("updateOffer", id, Null)
    /\ UNCHANGED <<offers, slides, offContent>>

\* setOfferVisibility(id, active): updateOffer(id, { active })
SetOfferVisibility(id, active) ==
    /\ request = NoRequest
    /\ Send("setOfferVisibility", "offers", "update", id, [active |-> Some(active)],
            toOfferPatch([active |-> Some(active)]))
    /\ Call("setOfferVisibility", id, Null)
    /\ UNCHANGED <<offers, slides, offContent>>

\* deleteOffer(id)
DeleteOffer(id) ==
    /\ request = NoRequest
    /\ Send("deleteOffer", "offers", "delete", id, <<>>, <<>>)
    /\ Call("deleteOffer", id, Null)
    /\ UNCHANGED <<offers, slides, offContent>>

\* addSlide(input)
AddSlide(id, input) ==
    /\ request = NoRequest
    /\ Send("addSlide", "slides", "insert", id, input,
            [image |-> input["image"], link |-> FieldOr(input, "link", Null)])
    /\ Call("addSlide", id, Some([id |-> id, image |-> input["image"],
                                  link |-> FieldOr(input, "link", Null)]))
    /\ UNCHANGED <<offers, slides, offContent>>

\* updateSlide(id, patch)
UpdateSlide(id, patch) ==
    /\ request = NoRequest
    /\ Send("updateSlide", "slides", "update", id, patch, SlideUpdate(patch))
    /\ Call("updateSlide", id, Null)
    /\ UNCHANGED <<offers, slides, offContent>>

\* deleteSlide(id)
DeleteSlide(id) ==
    /\ request = NoRequest
    /\ Send("deleteSlide", "slides", "delete", id, <<>>, <<>>)
    /\ Call("deleteSlide", id, Null)
    /\ UNCHANGED <<offers, slides, offContent>>

\* the gateway: insert / update(body).eq('id', id) / delete().eq('id', id)
TableAfter(table, req) ==
    CASE req.kind = "insert" -> [i \in {req.id} |-> req.body] @@ table
      [] req.kind = "update" ->
            [i \in DOMAIN table |-> IF i = req.id THEN Overlay(table[i], req.body) ELSE table[i]]
      [] OTHER -> [i \in DOMAIN table \ {req.id} |-> table[i]]

\* the gateway answers the write, and the .then callback runs: on an error
\* it logs a warning
GatewayAnswers(outcome) ==
    /\ request # NoRequest
    /\ LET req == request[1]
           table == IF req.table = "offers" THEN offers ELSE slides
       IN  /\ outcome = "ok" => ~(req.kind = "insert" /\ req.id \in DOMAIN table)
           /\ offers' = IF outcome = "ok" /\ req.table = "offers"
                        THEN TableAfter(offers, req) ELSE offers
           /\ slides' = IF outcome = "ok" /\ req.table = "slides"
                        THEN TableAfter(slides, req) ELSE slides
           /\ gwResult' = [op |-> req.op, id |-> req.id, outcome |-> outcome]
    /\ request' = NoRequest
    /\ UNCHANGED <<contentOp, offContent>>

Absent == [k \in {} |-> Null]
IconChoices == {Absent, [icon |-> Null], [icon |-> Some("i")]}
ActiveChoices == {Absent} \cup {[active |-> Some(b)] : b \in BOOLEAN}

OfferInputs ==
    {[title |-> Some("A"), amount |-> Some(5)] @@ v : v \in ActiveChoices}
OfferPatches ==
    {t @@ a @@ i @@ v : t \in {Absent, [title |-> Some("B")]},
                        a \in {Absent, [amount |-> Some(0)]},
                        i \in IconChoices, v \in ActiveChoices}
SlideInputs == {[image |-> Some("img")] @@ l : l \in {Absent, [link |-> Some("l")]}}
SlidePatches ==
    {m @@ l : m \in {Absent, [image |-> Some("img2")]},
              l \in {Absent, [link |-> Null], [link |-> Some("l2")]}}

NextContent ==
    \/ \E id \in OfferIds, input \in OfferInputs : AddOffer(id, input)
    \/ \E id \in OfferIds, patch \in OfferPatches : UpdateOffer(id, patch)
    \/ \E id \in OfferIds, active \in BOOLEAN : SetOfferVisibility(id, active)
    \/ \E id \in OfferIds : DeleteOffer(id)
    \/ \E id \in SlideIds, input \in SlideInputs : AddSlide(id, input)
    \/ \E id \in SlideIds, patch \in SlidePatches : UpdateSlide(id, patch)
    \/ \E id \in SlideIds : DeleteSlide(id)
    \/ \E outcome \in QueryOutcomes : GatewayAnswers(outcome)

SpecContent == Init /\ [][NextContent]_vars

ContentTypeOK ==
    /\ DOMAIN offers \subseteq OfferIds
    /\ DOMAIN slides \subseteq SlideIds
    /\ \A i \in DOMAIN offers : DOMAIN offers[i] = OfferColumns
    /\ contentOp.raised = FALSE

-----------------------------------------------------------------------------
\* The profile functions (src/lib/profile.ts).

ProfileIds == {"u1", "u2"}
ProfileColumns == {"id", "full_name", "phone", "upi_id", "is_admin"}

\* is_admin of a row the gateway inserts without being given one
DefaultIsAdmin == Some(FALSE)

UpsertPayload_WithAdmin(profile) ==
    [id |-> profile["id"],
     full_name |-> profile["full_name"],
     phone |-> profile["phone"],
     upi_id |-> profile["upi_id"],
     is_admin |-> FieldOr(profile, "is_admin", Null)]
\* payload = { id, full_name ?? null, phone ?? null, upi_id ?? null }
UpsertPayload(profile) ==
    [id |-> profile["id"],
     full_name |-> profile["full_name"],
     phone |-> profile["phone"],
     upi_id |-> profile["upi_id"]]

\* gateway: upsert(payload, { onConflict: 'id', ignoreDuplicates: false })
GatewayUpsert(table, payload) ==
    LET id == payload["id"]
        old == IF id \in DOMAIN table THEN table[id]
               ELSE [c \in ProfileColumns |-> IF c = "is_admin" THEN DefaultIsAdmin ELSE Null]
    IN  [i \in {id} |-> Overlay(old, payload)] @@ table

\* upsertProfile(profile): the upsert is awaited, an error is thrown to the caller
UpsertProfile(profile, gw) ==
    /\ profiles' = IF gw = "ok" THEN GatewayUpsert(profiles, UpsertPayload(profile))
                   ELSE profiles
    /\ profileOp' = [id |-> profile["id"], input |-> profile,
                     payload |-> UpsertPayload(profile), outcome |-> gw]
    /\ UNCHANGED offProfile

\* the admin flag is set at the gateway, outside the application
GatewaySetsAdmin(id, flag) ==
    /\ id \in DOMAIN profiles
    /\ profiles' = [profiles EXCEPT ![id]["is_admin"] = Some(flag)]
    /\ UNCHANGED <<profileOp, offProfile>>

ProfileInputs ==
    {[id |-> id, full_name |-> n, phone |-> Some("p"), upi_id |-> u] @@ a :
        id \in ProfileIds, n \in {Null, Some("n")}, u \in {Null, Some("x")},
        a \in {Absent, [is_admin |-> Null], [is_admin |-> Some(TRUE)],
               [is_admin |-> Some(FALSE)]}}

NextProfile ==
    \/ \E profile \in ProfileInputs, gw \in QueryOutcomes : UpsertProfile(profile, gw)
    \/ \E id \in ProfileIds, flag \in BOOLEAN : GatewaySetsAdmin(id, flag)

SpecProfile == Init /\ [][NextProfile]_vars

ProfileTypeOK ==
    /\ DOMAIN profiles \subseteq ProfileIds
    /\ \A i \in DOMAIN profiles :
          DOMAIN profiles[i] = ProfileColumns /\ profiles[i]["id"] = i

-----------------------------------------------------------------------------
\* The home screen's offer list (src/app/(tabs)/index.tsx).

MaxList == 2
HomeUsers == {"u1"}
HomeOfferIds == {"o1", "null"}

\* String(v) of an id that may be null
String(v) == IF v = Null THEN "null" ELSE v[1]

RECURSIVE Filter(_, _)
\* list.filter(keep), keep given as the set of elements kept
Filter(list, keep) ==
    IF list = <<>> THEN <<>>
    ELSE IF Head(list) \in keep THEN <<Head(list)>> \o Filter(Tail(list), keep)
         ELSE Filter(Tail(list), keep)

Elements(list) == {list[k] : k \in DOMAIN list}

\* new Set(items.filter(t => t.status === 'paid' && !!t.offer_id)
\*                .map(t => String(t.offer_id)))
PaidOfferIds(items) ==
    {String(t.offer_id) :
        t \in {x \in Elements(items) : x.status = "paid" /\ x.offer_id # Null}}

VisibleOffers_OnlyFlagged(list, paid) ==
    LET active == Filter(list, {o \in Elements(list) : o.active = Some(TRUE)})
    IN  IF paid = {} THEN active
        ELSE Filter(active, {o \in Elements(active) : String(Some(o.id)) \notin paid})
\* visibleOffers: active and not already paid by the user
VisibleOffers(list, paid) ==
    LET active == Filter(list, {o \in Elements(list) : o.active # Some(FALSE)})
    IN  IF paid = {} THEN active
        ELSE Filter(active, {o \in Elements(active) : String(Some(o.id)) \notin paid})

visibleOffers == VisibleOffers(allOffers, paidOfferIds)

\* useAuth() yields a user: the effect subscribes for that user
SignIn(u) ==
    /\ homeUser = Null
    /\ homeUser' = Some(u)
    /\ UNCHANGED <<allOffers, paidOfferIds, homeItems, offHome>>

\* useAuth() yields no user: the effect unsubscribes and clears the paid ids
SignOut ==
    /\ homeUser # Null
    /\ homeUser' = Null
    /\ paidOfferIds' = {}
    /\ homeItems' = <<>>
    /\ UNCHANGED <<allOffers, offHome>>

\* subscribeOffers callback: setAllOffers(items)
OffersDelivered(items) ==
    /\ allOffers' = items
    /\ UNCHANGED <<homeUser, paidOfferIds, homeItems, offHome>>

\* subscribeTransactionsForUser callback: setPaidOfferIds(paid)
TransactionsDelivered(items) ==
    /\ homeUser # Null
    /\ \A k \in DOMAIN items : items[k].user_id = homeUser[1]
    /\ homeItems' = items
    /\ paidOfferIds' = PaidOfferIds(items)
    /\ UNCHANGED <<homeUser, allOffers, offHome>>

ListsOf(S) == UNION {[1..n -> S] : n \in 0..MaxList}

HomeOffers ==
    [id : HomeOfferIds, active : {Null, Some(TRUE), Some(FALSE)}]

HomeTransactions ==
    [user_id : HomeUsers, status : {"paid", "pending"},
     offer_id : {Null} \cup {Some(o) : o \in HomeOfferIds \ {"null"}}]

NextHome ==
    \/ \E u \in HomeUsers : SignIn(u)
    \/ SignOut
    \/ \E items \in ListsOf(HomeOffers) : OffersDelivered(items)
    \/ \E items \in ListsOf(HomeTransactions) : TransactionsDelivered(items)

SpecHome == Init /\ [][NextHome]_vars

HomeTypeOK ==
    /\ homeUser \in {Null} \cup {Some(u) : u \in HomeUsers}
    /\ allOffers \in ListsOf(HomeOffers)
    /\ homeItems \in ListsOf(HomeTransactions)
    /\ paidOfferIds \subseteq HomeOfferIds

-----------------------------------------------------------------------------
\* The wallet screen's list (src/unnamed/part_001).

offList == <<txVars, busVars, subVars, walVars, conVars, proVars, homeVars, hdlVars, storeVars>>

WalletUser == "u1"             \* user.id of the signed-in user
WalletIds == {"t1", "t2", "t3"}

\* what the display rule tells apart in a transaction
WalletShapes ==
    {[status |-> "paid", offer_id |-> Some("o1"), created_at |-> 1],
     [status |-> "pending", offer_id |-> Null, created_at |-> 1],
     [status |-> "pending", offer_id |-> Some("o1"), created_at |-> 1],
     [status |-> "rejected", offer_id |-> Some("o1"), created_at |-> 2]}

WalletRow(id, u, shape) ==
    [id |-> id, user_id |-> u, status |-> shape.status,
     offer_id |-> shape.offer_id, created_at |-> shape.created_at]

\* the signed-in user's transactions, and the events the bus can carry
WalletRows == {WalletRow(id, WalletUser, sh) : id \in WalletIds, sh \in WalletShapes}
WalletEvents ==
    {Null} \cup {Some(r) : r \in WalletRows}
           \cup {Some(WalletRow(id, "u2", sh)) : id \in {"t1"}, sh \in WalletShapes}

\* the lists a subscription can deliver: rows of the user, no id twice
RECURSIVE ListsWithin(_)
ListsWithin(ids) ==
    {<<>>} \cup UNION {{<<r>> \o rest : r \in {x \in WalletRows : x.id = id},
                                        rest \in ListsWithin(ids \ {id})} : id \in ids}

WalletLists == ListsWithin(WalletIds)

Merge_KeepsOld(prev, tx) == <<tx>> \o prev
\* setTxs(prev => [tx, ...prev.filter(p => p.id !== tx.id)])
Merge(prev, tx) == <<tx>> \o Filter(prev, {q \in Elements(prev) : q.id # tx.id})

\* the listener the screen hands to addTransactionListener
TxEvent(ev) ==
    /\ txs' = IF ev = Null \/ ev[1].user_id # WalletUser THEN txs ELSE Merge(txs, ev[1])
    /\ walletOp' = [kind |-> "event", tx |-> ev, items |-> <<>>]
    /\ UNCHANGED offList

\* the callback handed to subscribeTransactionsForUser: setTxs
ListDelivered(items) ==
    /\ txs' = items
    /\ walletOp' = [kind |-> "delivery", tx |-> Null, items |-> items]
    /\ UNCHANGED offList

LatestStep_FirstSeen(m, t) ==
    IF t.status = "paid" THEN m
    ELSE IF t.offer_id # Null
         THEN IF String(t.offer_id) \notin DOMAIN m
              THEN (String(t.offer_id) :> t) @@ m
              ELSE m
         ELSE (t.id :> t) @@ m
\* one turn of the loop over txs: latestNonPaidByOffer after t
LatestStep(m, t) ==
    IF t.status = "paid" THEN m
    ELSE IF t.offer_id # Null
         THEN IF \/ String(t.offer_id) \notin DOMAIN m
                 \/ t.created_at > m[String(t.offer_id)].created_at
              THEN (String(t.offer_id) :> t) @@ m
              ELSE m
         ELSE (t.id :> t) @@ m

RECURSIVE LatestNonPaidByOffer(_, _)
LatestNonPaidByOffer(m, list) ==
    IF list = <<>> THEN m
    ELSE LatestNonPaidByOffer(LatestStep(m, Head(list)), Tail(list))

\* displayTxs (useMemo body)
DisplayTxs(list) ==
    LET m == LatestNonPaidByOffer(<<>>, list)
        keep == {m[k].id : k \in DOMAIN m}
                    \cup {t.id : t \in {x \in Elements(list) : x.status = "paid"}}
    IN  Filter(list, {t \in Elements(list) : t.id \in keep})

displayTxs == DisplayTxs(txs)

NextList ==
    \/ \E ev \in WalletEvents : TxEvent(ev)
    \/ \E items \in WalletLists : ListDelivered(items)

SpecList == Init /\ [][NextList]_vars

-----------------------------------------------------------------------------
\* The in-memory wallet store (src/lib/wallet.ts).

offStore ==
    <<txVars, busVars, subVars, walVars, conVars, proVars, homeVars, hdlVars, listVars>>

MaxAdds == 2
StoreCallbacks == {"x", "y"}
NewIds == <<"tx-1", "tx-2", "tx-3", "tx-4">>
StoreTargets == {"seed-3", "tx-1", "none"}   \* ids handed to updateTransactionStatus

RECURSIVE InsertDesc(_, _)
\* the place of t in a list sorted by timestamp descending, after its equals
InsertDesc(t, sorted) ==
    IF sorted = <<>> THEN <<t>>
    ELSE IF Head(sorted).timestamp >= t.timestamp
         THEN <<Head(sorted)>> \o InsertDesc(t, Tail(sorted))
         ELSE <<t>> \o sorted

RECURSIVE SortedFrom(_, _)
SortedFrom(sorted, list) ==
    IF list = <<>> THEN sorted
    ELSE SortedFrom(InsertDesc(Head(list), sorted), Tail(list))

SortDesc_AsStored(list) == list
\* [...transactions].sort((a, b) => b.timestamp - a.timestamp)
SortDesc(list) == SortedFrom(<<>>, list)

\* subs.forEach(cb => cb(sorted))
NotifyCalls(cbs, list) == [k \in DOMAIN cbs |-> [cb |-> cbs[k], items |-> SortDesc(list)]]

\* subscribeTransactions(cb)
SubscribeTransactions(cb) ==
    /\ storeSubs' = SetAdd(storeSubs, cb)
    /\ storeOp' = [kind |-> "subscribe", arg |-> cb,
                   calls |-> <<[cb |-> cb, items |-> SortDesc(store)]>>]
    /\ UNCHANGED <<store, storeNow, adds, offStore>>

\* the function subscribeTransactions(cb) returned
UnsubscribeTransactions(cb) ==
    /\ storeSubs' = SetDelete(storeSubs, cb)
    /\ storeOp' = [kind |-> "unsubscribe", arg |-> cb, calls |-> <<>>]
    /\ UNCHANGED <<store, storeNow, adds, offStore>>

\* addTransactionPending(params), the clock reading t
AddTransactionPending(t) ==
    /\ adds < MaxAdds
    /\ adds < Len(NewIds)
    /\ t >= storeNow
    /\ adds' = adds + 1
    /\ storeNow' = t
    /\ store' = <<[id |-> NewIds[adds + 1], status |-> "pending", amount |-> 5,
                   timestamp |-> t]>> \o store
    /\ storeOp' = [kind |-> "add", arg |-> NewIds[adds + 1],
                   calls |-> NotifyCalls(storeSubs, store')]
    /\ UNCHANGED <<storeSubs, offStore>>

\* transactions.map(t => t.id === id ? { ...t, status } : t)
MapStatus(list, id, status) ==
    [k \in DOMAIN list |-> IF list[k].id = id THEN [list[k] EXCEPT !.status = status]
                           ELSE list[k]]

\* updateTransactionStatus(id, status) of the store
StoreUpdateStatus(id, status) ==
    /\ store' = MapStatus(store, id, status)
    /\ storeOp' = [kind |-> "update", arg |-> id, calls |-> NotifyCalls(storeSubs, store')]
    /\ UNCHANGED <<storeSubs, storeNow, adds, offStore>>

NextStore ==
    \/ \E cb \in StoreCallbacks : SubscribeTransactions(cb)
    \/ \E cb \in StoreCallbacks : UnsubscribeTransactions(cb)
    \/ \E d \in 0..1 : AddTransactionPending(storeNow + d)
    \/ \E id \in StoreTargets, status \in Statuses : StoreUpdateStatus(id, status)

SpecStore == Init /\ [][NextStore]_vars

-----------------------------------------------------------------------------
\* Claims about the event bus.

\* the callbacks invoked with payload e so far, in the order of invocation
DeliveredTo(e) ==
    LET ds == SelectSeq(deliveries, LAMBDA d : d.payload = e)
    IN  [k \in 1..Len(ds) |-> ds[k].cb]

EmitInProgress(e) == emitting # Null /\ emitting[1].payload = e
EmitDone(e) == e \in 1..emits /\ ~EmitInProgress(e)

\* C11: emitTransaction(payload) invokes every callback registered at that
\* moment exactly once with payload, in registration order; a callback that
\* throws does not stop delivery to the later ones, and emitTransaction does
\* not throw.
C11_EmitDeliversToAll ==
    /\ emitThrew = {}
    /\ \A e \in 1..emits :
          IF EmitInProgress(e)
          THEN DeliveredTo(e) \o emitting[1].queue = snapshot[e]
          ELSE DeliveredTo(e) = snapshot[e]

\* three listeners, the second one threw, the third one was still invoked
C11_Witness ==
    \E e \in 1..emits :
        /\ EmitDone(e)
        /\ Len(snapshot[e]) = 3
        /\ DeliveredTo(e) = snapshot[e]
        /\ \E k \in DOMAIN deliveries :
              /\ deliveries[k].payload = e
              /\ deliveries[k].cb = snapshot[e][2]
              /\ deliveries[k].threw

\* a step that invokes a callback
Invokes(d) == deliveries' = Append(deliveries, d)

\* C12: the bus neither buffers nor replays: a callback is invoked with a
\* payload only inside the emitTransaction call for that payload, and only if
\* it was registered when that call started; one registered later (by a
\* callback during the delivery, or after it) never receives that payload.
C12_NoReplay ==
    [][ /\ Len(deliveries') >= Len(deliveries)
        /\ Len(deliveries') > Len(deliveries) =>
              \E d \in {deliveries'[Len(deliveries')]} :
                  /\ Invokes(d)
                  /\ EmitInProgress(d.payload)
                  /\ d.cb \in Range(snapshot[d.payload])
      ]_vars

\* a callback registered during the delivery of e is a listener now and was
\* not invoked with e, although e was delivered to the others
C12_Witness ==
    \E e \in 1..emits, cb \in Callbacks :
        /\ EmitDone(e)
        /\ DeliveredTo(e) # <<>>
        /\ cb \in Range(listeners)
        /\ cb \notin Range(snapshot[e])
        /\ cb \notin Range(DeliveredTo(e))
        /\ e = emits
        /\ busOp.op = "deliver"

\* a step in which the handle of callback c is called
HandleCalled(c) ==
    \/ busOp'.op = "handle" /\ busOp'.cb = c
    \/ busOp'.op = "deliver" /\ busOp'.effect = <<"remove", c>>

EmitStarts == emits' = emits + 1

\* C13: the handle returned by addTransactionListener de-registers its
\* callback: the call removes that callback and no other (the others keep
\* their order), a second call changes nothing, and an emitTransaction that
\* starts later invokes the remaining callbacks and not the removed one.
C13_HandleDeregisters ==
    [][ /\ \A c \in Callbacks : HandleCalled(c) =>
              /\ c \notin Range(listeners')
              /\ listeners' = SelectSeq(listeners, LAMBDA x : x # c)
              /\ c \notin Range(listeners) => listeners' = listeners
        /\ EmitStarts =>
              /\ Range(snapshot'[emits']) \cap removed = {}
              /\ snapshot'[emits'] = listeners
      ]_vars

\* b was de-registered, its handle was called twice, and a later emit went to
\* the other two callbacks only
C13_Witness ==
    /\ emits >= 2
    /\ EmitDone(emits)
    /\ "b" \in Range(snapshot[1])
    /\ "b" \in removed
    /\ busOp = [op |-> "handle", cb |-> "b", effect |-> <<"none">>]
    /\ DeliveredTo(emits) = <<"a", "c">>

-----------------------------------------------------------------------------
\* Claims about the subscription functions.

Delivered(i) == subs[i].delivered
Closed(i) == subs[i].cancelled
Open(i) == subs[i].kind # "none" /\ ~subs[i].cancelled

\* a step in which query q resolves and the code after its await runs
Resolves(q) == q \in queries /\ q.phase = "answered" /\ q \notin queries'

\* the queries of instance i sent in this step
SentNow(i) == {q \in queries' \ queries : q.inst = i /\ q.phase = "sent"}

\* C14: for every subscription function, lists and subscribeOfferById alike,
\* once unsubscribe has been called the callback is never invoked again,
\* whatever queries were in flight and in whatever order they resolve.
C14_NoCallbackAfterUnsubscribe ==
    [][ \A i \in Instances : Closed(i) =>
            /\ subs'[i].delivered = Delivered(i)
            /\ subs'[i].cancelled
      ]_vars

\* an instance that delivered something, was closed, and then had two of its
\* queries resolve without a callback invocation
C14_Witness ==
    \E i \in Instances :
        /\ Closed(i)
        /\ Delivered(i) # <<>>
        /\ subs[i].dropped >= 2
        /\ QueriesOf(i) = {}

\* C15: while an instance is not closed every change notification causes
\* exactly one full re-query, and a query that resolves while the instance is
\* not closed causes exactly one callback invocation, carrying that query's
\* result; notifications are neither coalesced nor dropped.
C15_OneReloadPerNotification ==
    [][ \A i \in Instances :
          /\ subs'[i].notifs < subs[i].notifs =>
                \/ subs'[i].cancelled /\ subs'[i].notifs = 0
                \/ /\ subs'[i].notifs = subs[i].notifs - 1
                   /\ Cardinality(SentNow(i)) = 1
                   /\ \A q \in SentNow(i) : q.trigger = "change"
          /\ (\E q \in SentNow(i) : q.trigger = "change") =>
                /\ Open(i)
                /\ subs'[i].notifs = subs[i].notifs - 1
                /\ Cardinality(SentNow(i)) = 1
          /\ \A q \in QueriesOf(i) : Resolves(q) /\ Open(i) =>
                /\ Len(subs'[i].delivered) = Len(Delivered(i)) + 1
                /\ subs'[i].delivered[Len(Delivered(i)) + 1].n = q.n
                /\ SubSeq(subs'[i].delivered, 1, Len(Delivered(i))) = Delivered(i)
                /\ q.data # Null => subs'[i].delivered[Len(Delivered(i)) + 1].value = q.data[1]
      ]_vars

\* two notifications were answered by two reloads, each delivered on its own
C15_Witness ==
    \E i \in Instances :
        /\ Open(i)
        /\ \E k, l \in DOMAIN Delivered(i) :
              /\ k # l
              /\ Delivered(i)[k].trigger = "change"
              /\ Delivered(i)[l].trigger = "change"
              /\ Delivered(i)[k].value # Delivered(i)[l].value

\* C16, as stated: the result of the initial read is the first value an
\* instance delivers, no reload result is delivered before it.
C16_InitialResultFirst ==
    \A i \in Instances :
        Delivered(i) # <<>> => Delivered(i)[1].trigger = "initial"

\* C16, amended: the initial read is issued and the change feed registered at
\* subscribe time; reloads are triggered and results delivered only while the
\* instance is open; closed is final; the initial read's result is delivered
\* at most once (not necessarily first).
C16_OpenThenClosed ==
    [][ \A i \in Instances :
          /\ subs[i].kind = "none" /\ subs'[i].kind # "none" =>
                /\ SentNow(i) = {NewQuery(i, 1, "initial")}
                /\ subs'[i].channel
                /\ ~subs'[i].cancelled
          /\ SentNow(i) # {} /\ subs[i].kind # "none" =>
                /\ Open(i)
                /\ \A q \in SentNow(i) : q.trigger = "change"
          /\ subs'[i].delivered # Delivered(i) => Open(i)
          /\ Closed(i) => subs'[i].cancelled /\ ~subs'[i].channel
          /\ Cardinality({k \in DOMAIN subs'[i].delivered :
                             subs'[i].delivered[k].trigger = "initial"}) <= 1
      ]_vars

\* a reload's result was delivered first and the initial read's result after it
C16_Witness ==
    \E i \in Instances :
        /\ Len(Delivered(i)) >= 2
        /\ Delivered(i)[1].trigger = "change"
        /\ Delivered(i)[2].trigger = "initial"

\* C17: the queries of an instance resolve independently of one another:
\* whichever answered query resolves next, its continuation can run, whatever
\* was sent or delivered before; so a result queried before a write can be
\* delivered after one queried after it, and be the last value delivered.
C17_ResolveInAnyOrder ==
    \A q \in queries : q.phase = "answered" => ENABLED Resolve(q.inst, q.n)

\* every query has resolved, the newer table was delivered before the older
\* one, and the value delivered last is not the table as it is now
C17_Witness ==
    \E i \in Instances :
        /\ Open(i)
        /\ QueriesOf(i) = {}
        /\ subs[i].notifs = 0
        /\ Len(Delivered(i)) >= 2
        /\ LET d == Delivered(i)
               m == Len(d)
           IN  /\ ~d[m].failed /\ ~d[m - 1].failed
               /\ d[m - 1].value > d[m].value
               /\ d[m - 1].n > d[m].n
               /\ d[m].value # QueryResult(subs[i].kind, tableVer)

\* C18: for a list subscription, when a query (the initial one or a reload)
\* fails while the instance is not closed, the callback is invoked exactly
\* once with the empty collection, the subscription stays live, and no error
\* is raised.
C18_FailedQueryDeliversEmpty ==
    [][ \A i \in Instances : \A q \in QueriesOf(i) :
          Resolves(q) /\ q.failed /\ Open(i) /\ subs[i].kind = "list" =>
              /\ subs'[i].delivered =
                    Append(Delivered(i), [n |-> q.n, trigger |-> q.trigger,
                                          value |-> EmptyCollection, failed |-> TRUE])
              /\ subs'[i].channel /\ ~subs'[i].cancelled
              /\ subs'[i].notifs = subs[i].notifs
              /\ subs'[i].raised = subs[i].raised
      ]_vars

\* a list instance delivered rows, then the empty collection for a failed
\* query, then rows again
C18_Witness ==
    \E i \in Instances :
        /\ subs[i].kind = "list"
        /\ Open(i)
        /\ Len(Delivered(i)) = 3
        /\ ~Delivered(i)[1].failed /\ Delivered(i)[1].value # EmptyCollection
        /\ Delivered(i)[2].failed /\ Delivered(i)[2].value = EmptyCollection
        /\ ~Delivered(i)[3].failed /\ Delivered(i)[3].value # EmptyCollection

-----------------------------------------------------------------------------
\* Claims about the failure paths of createOrReuseActiveTransaction.

\* a step that ends a call of createOrReuseActiveTransaction made by p
CreateOrReuseEnds(p) == Completes(p) /\ last'.op = "createOrReuse"

\* the columns the reuse patch does not write
KeptOnReuse == {"id", "user_id", "offer_id", "proof_url", "notes", "created_at"}

\* C19: when the gateway write succeeds but returns no row the call does not
\* fail: on the reuse path it returns the found row overlaid with the patch
\* (same id, status pending, reviewedAt and reviewedBy null), on the insert
\* path a row built from the input with status pending and null review fields,
\* and in both cases that synthesized row is published on the event bus.
C19_DegradedWrite ==
    [][ \A p \in Procs : CreateOrReuseEnds(p) /\ last'.gw = "norow" =>
          /\ last'.outcome = "ok"
          /\ last'.emitted = last'.tx
          /\ lastEvent' = last'.tx
          /\ LET tx == last'.tx[1]
                 input == local[p].input[1]
             IN  /\ tx.status = "pending"
                 /\ tx.reviewed_at = Null
                 /\ tx.reviewed_by = Null
                 /\ tx.user_id = input.userId
                 /\ tx.offer_id = Some(input.offerId)
                 /\ IF last'.via = "update"
                    THEN LET found == local[p].existing[1]
                         IN  /\ \A c \in KeptOnReuse : tx[c] = found[c]
                             /\ tx.amount = Coalesce(input.amount, found.amount)
                             /\ tx.offer_title = Coalesce(input.offerTitle, found.offer_title)
                             /\ tx.offer_icon_url =
                                   Coalesce(input.offerIconUrl, found.offer_icon_url)
                    ELSE /\ last'.via = "insert"
                         /\ tx.id = UnknownId
                         /\ tx.amount = input.amount
                         /\ tx.offer_title = input.offerTitle
                         /\ tx.offer_icon_url = input.offerIconUrl
                         /\ tx.proof_url = Null
                         /\ tx.notes = Null
                         /\ tx.created_at = now
      ]_vars

\* the update of a rejected, reviewed row returned no row: the call returned
\* the row as pending and unreviewed, and published it
C19_Witness ==
    /\ last.op = "createOrReuse"
    /\ last.gw = "norow"
    /\ last.via = "update"
    /\ last.was = "rejected"
    /\ last.outcome = "ok"
    /\ last.tx[1].status = "pending"
    /\ last.tx[1].id \in Ids
    /\ lastEvent = last.tx

\* C20: any gateway failure aborts createOrReuseActiveTransaction and reaches
\* the caller as the error: a failed find issues no update and no insert, a
\* failed update does not fall back to an insert, no step is retried, and
\* nothing is published on the event bus for the failed call.
C20_FailureAborts ==
    [][ \A p \in Procs :
          /\ CreateOrReuseEnds(p) /\ last'.gw = "error" =>
                /\ last'.outcome = "error"
                /\ last'.tx = Null
                /\ transactions' = transactions
                /\ pc'[p] = "idle"
                /\ local'[p] = NoLocal
                /\ last'.emitted = Null
                /\ lastEvent' = lastEvent
          /\ CreateOrReuseEnds(p) /\ last'.outcome = "error" => last'.gw = "error"
          /\ pc[p] = "update" => pc'[p] \in {"update", "idle"}
          /\ pc[p] = "insert" => pc'[p] \in {"insert", "idle"}
          /\ pc[p] \in {"update", "insert"} /\ pc'[p] = "idle" => CreateOrReuseEnds(p)
      ]_vars

\* the update of the reuse path failed after an event had been published: the
\* caller got the error, the row is as it was and the last event is the old one
C20_Witness ==
    /\ last.op = "createOrReuse"
    /\ last.via = "update"
    /\ last.gw = "error"
    /\ last.outcome = "error"
    /\ last.emitted = Null
    /\ lastEvent # Null
    /\ \A i \in Ids : transactions[i].status = "rejected"

-----------------------------------------------------------------------------
\* Claims about updateTransactionStatus and the events the mutations publish.

\* C21: updateTransactionStatus fails with an error whenever the gateway does
\* not return exactly one updated row (unknown id, or the row is not
\* returned); it then synthesizes no row, returns no transaction and
\* publishes nothing on the event bus.
C21_SingleRowRequired ==
    [][ \A p \in Procs :
          StatusStep(p) /\ (last'.gw # "ok" \/ last'.args[1].id \notin Ids) =>
              /\ last'.outcome = "error"
              /\ last'.tx = Null
              /\ last'.emitted = Null
              /\ lastEvent' = lastEvent
      ]_vars

\* the row exists and an event was published before, the gateway returned no
\* row: the call failed and the last event is still the earlier one
C21_Witness ==
    /\ last.op = "updateStatus"
    /\ last.gw = "norow"
    /\ last.args[1].id \in Ids
    /\ last.outcome = "error"
    /\ last.tx = Null
    /\ lastEvent # Null

\* the consumer received, for write w, a reload result before the bus event
ReloadFirst(w) ==
    \E k \in DOMAIN events : \E i \in WalletInstances :
        /\ events[k].w = w
        /\ \E j \in 1..events[k].at :
              /\ subs[i].delivered[j].trigger = "change"
              /\ subs[i].delivered[j].value >= w

\* the consumer received, for write w, the bus event and after it a reload result
EventFirst(w) ==
    \E k \in DOMAIN events : \E i \in WalletInstances :
        /\ events[k].w = w
        /\ ~ReloadFirst(w)
        /\ \E j \in (events[k].at + 1)..Len(subs[i].delivered) :
              /\ subs[i].delivered[j].trigger = "change"
              /\ subs[i].delivered[j].value >= w

EventsFor(w) == {k \in DOMAIN events : events[k].w = w}

\* C22, as stated: every successful mutation publishes exactly one event,
\* carrying the transaction it returns, and in-process listeners receive that
\* event before any realtime-triggered reload result for the same write.
C22_EventBeforeReload ==
    \A w \in returned :
        /\ Cardinality(EventsFor(w)) <= 1
        /\ ~ReloadFirst(w)

\* C22, amended: a mutation call that returns publishes exactly one event,
\* carrying the transaction it returns, after the gateway has applied the
\* write and as the last thing before it returns; an attached listener
\* receives it in that step, and nothing else produces an event.
C22_OneEventPerCall ==
    [][ /\ \A w \in returned' \ returned :
              /\ w \in 1..tableVer
              /\ returned' = returned \cup {w}
              /\ IF \E i \in WalletInstances : Attached(i)
                 THEN \E i \in WalletInstances :
                         events' = Append(events, [w |-> w, at |-> Len(subs[i].delivered)])
                 ELSE events' = events
        /\ events' # events => returned' # returned
        /\ returned \subseteq returned'
      ]_vars

\* the event of write 1 was received, and the reload result for it afterwards
C22_Witness == EventFirst(1)

\* C23: for a consumer attached to the bus and to
\* subscribeTransactionsForUser both orders can happen for a write: whenever
\* the response of a write is outstanding the mutation can return next, and
\* whenever a reload is answered it can resolve next, whichever of the two
\* the consumer has already seen.
C23_EitherOrder ==
    /\ \A w \in Outstanding : ENABLED MutationReturns(w)
    /\ \A q \in queries : q.inst \in WalletInstances /\ q.phase = "answered" =>
          ENABLED Resolve(q.inst, q.n)

\* one write was seen as event first and reload after, another as reload first
C23_Witness ==
    \E v, w \in returned : EventFirst(v) /\ ReloadFirst(w)

-----------------------------------------------------------------------------
\* C24: concurrent updateTransactionStatus calls on one id are resolved
\* last-write-wins: whatever the row holds when the gateway applies a call's
\* update (another caller's write included), the call succeeds, and the row's
\* status and the supplied notes / reviewed_by / reviewed_at are then those of
\* this call.
C24_LastWriteWins ==
    [][ \A p \in Procs :
          StatusStep(p) /\ last'.gw = "ok" /\ last'.args[1].id \in Ids =>
              LET a == last'.args[1]
                  row == transactions'[a.id]
              IN  /\ last'.outcome = "ok"
                  /\ last'.tx = Some(mapRow(row))
                  /\ row.status = a.status
                  /\ a.options # Null =>
                        \A k \in DOMAIN a.options[1] : row[k] = a.options[1][k]
      ]_vars

\* a row that an earlier call had set to rejected was set to paid by the
\* other caller's call
C24_Witness ==
    /\ last.op = "updateStatus"
    /\ last.proc = "p2"
    /\ last.outcome = "ok"
    /\ last.was = "rejected"
    /\ last.args[1].status = "paid"
    /\ last.args[1].options # Null
    /\ transactions[last.args[1].id].status = "paid"
    /\ transactions[last.args[1].id].reviewed_by = Some("admin1")

-----------------------------------------------------------------------------
\* Claims about the content functions.

\* a step in which the gateway answers the write that request holds
Answered == request # NoRequest /\ request' = NoRequest

\* the columns of the fields that patch provides with a value
ProvidedColumns(patch) == {ColumnOf(f) : f \in {g \in DOMAIN patch : patch[g] # Null}}

\* C25: updateOffer(id, patch) writes only the columns of the fields provided
\* in patch, with the values provided, and leaves every other column of that
\* offer and every other offer untouched; setOfferVisibility(id, active)
\* changes only the active column of offer id, to active, for true and false.
C25_UpdateOfferFrame ==
    [][ Answered /\ request[1].op \in {"updateOffer", "setOfferVisibility"} =>
          LET req == request[1]
          IN  /\ slides' = slides
              /\ DOMAIN offers' = DOMAIN offers
              /\ \A i \in DOMAIN offers :
                    /\ i # req.id => offers'[i] = offers[i]
                    /\ \A c \in OfferColumns \ ProvidedColumns(req.args) :
                          offers'[i][c] = offers[i][c]
              /\ req.id \in DOMAIN offers /\ gwResult'.outcome = "ok" =>
                    \A f \in DOMAIN req.args :
                        req.args[f] # Null => offers'[req.id][ColumnOf(f)] = req.args[f]
              /\ req.op = "setOfferVisibility" =>
                    /\ ProvidedColumns(req.args) = {"active"}
                    /\ req.args["active"] \in {Some(TRUE), Some(FALSE)}
      ]_vars

\* setOfferVisibility(o1, false) was applied: o1 is hidden and keeps its
\* title, amount and icon, while o2 is there and active
C25_Witness ==
    /\ gwResult = [op |-> "setOfferVisibility", id |-> "o1", outcome |-> "ok"]
    /\ DOMAIN offers = OfferIds
    /\ offers["o1"]["active"] = Some(FALSE)
    /\ offers["o1"]["title"] = Some("B")
    /\ offers["o1"]["icon"] = Some("i")
    /\ offers["o2"]["active"] = Some(TRUE)

-----------------------------------------------------------------------------
\* C26: upsertProfile never writes the admin flag: whatever the input profile
\* says in is_admin, only id, full_name, phone and upi_id are sent, the
\* stored is_admin of an existing profile is after the call what it was
\* before, a profile the call creates gets the gateway's default, and no other
\* profile changes.
C26_AdminFlagNotWritten ==
    [][ profileOp' # profileOp =>
          LET id == profileOp'.id
          IN  /\ DOMAIN profileOp'.payload = {"id", "full_name", "phone", "upi_id"}
              /\ \A j \in DOMAIN profiles : j # id => profiles'[j] = profiles[j]
              /\ id \in DOMAIN profiles =>
                    profiles'[id]["is_admin"] = profiles[id]["is_admin"]
              /\ id \notin DOMAIN profiles /\ id \in DOMAIN profiles' =>
                    profiles'[id]["is_admin"] = DefaultIsAdmin
      ]_vars

\* a profile the gateway had made admin was saved with is_admin false in the
\* input: the name was written and the profile is still admin
C26_Witness ==
    /\ profileOp.outcome = "ok"
    /\ "is_admin" \in DOMAIN profileOp.input
    /\ profileOp.input["is_admin"] = Some(FALSE)
    /\ profileOp.input["full_name"] = Some("n")
    /\ profiles[profileOp.id]["is_admin"] = Some(TRUE)
    /\ profiles[profileOp.id]["full_name"] = Some("n")

-----------------------------------------------------------------------------
\* C27: a gateway failure in a mutation is propagated to the direct caller as
\* a rejected operation: whenever the gateway has answered the write of
\* addOffer, updateOffer, deleteOffer, addSlide, updateSlide or deleteSlide
\* with an error, the call that sent it was rejected and handed its caller no
\* object.
C27_FailurePropagated ==
    gwResult.outcome = "error" =>
        /\ contentOp.op = gwResult.op
        /\ contentOp.raised
        /\ contentOp.returned = Null

-----------------------------------------------------------------------------
\* C28: for the offers list delivered last and the user's transactions
\* delivered last, the visible list is the delivered list, in its order, less
\* every offer whose active is false and every offer the user has a paid
\* transaction for: it holds none of those and all of the others.
PaidByUser(o) ==
    \E k \in DOMAIN homeItems :
        /\ homeItems[k].status = "paid"
        /\ homeItems[k].offer_id = Some(o.id)

Hidden(o) == o.active = Some(FALSE) \/ PaidByUser(o)

C28_VisibleOffers ==
    /\ \A k \in DOMAIN visibleOffers : ~Hidden(visibleOffers[k])
    /\ \A k \in DOMAIN allOffers :
          ~Hidden(allOffers[k]) => allOffers[k] \in Elements(visibleOffers)
    /\ visibleOffers = Filter(allOffers, {o \in Elements(allOffers) : ~Hidden(o)})

\* two offers and two paid transactions were delivered: the offer paid for is
\* hidden although active; the other, with no active flag and the id "null",
\* is shown, the paid transaction without an offer notwithstanding
C28_Witness ==
    /\ Len(allOffers) = 2
    /\ allOffers[1] = [id |-> "o1", active |-> Some(TRUE)]
    /\ allOffers[2] = [id |-> "null", active |-> Null]
    /\ Len(homeItems) = 2
    /\ \A k \in DOMAIN homeItems : homeItems[k].status = "paid"
    /\ \E k \in DOMAIN homeItems : homeItems[k].offer_id = Null
    /\ PaidByUser(allOffers[1])
    /\ visibleOffers = <<allOffers[2]>>

-----------------------------------------------------------------------------
\* C29: when a call reuses a found row, each of offer_title, offer_icon_url
\* and amount of that row, and of the transaction returned, is the value the
\* input supplies when it supplies one (an amount of 0 included), and
\* otherwise the found row's value, which is null when the found row has none.
Supplied(v, found) == IF v # Null THEN v ELSE found

ReuseEnds(p) == pc[p] = "update" /\ pc'[p] = "idle" /\ last'.outcome = "ok"

C29_ReuseFields ==
    [][ \A p \in Procs : ReuseEnds(p) =>
          LET input == local[p].input[1]
              found == local[p].existing[1]
              row == transactions'[found.id]
              tx == last'.tx[1]
          IN  /\ row.offer_title = Supplied(input.offerTitle, found.offer_title)
              /\ row.offer_icon_url = Supplied(input.offerIconUrl, found.offer_icon_url)
              /\ row.amount = Supplied(input.amount, found.amount)
              /\ input.amount = Some(0) => row.amount = Some(0)
              /\ tx.offer_title = row.offer_title
              /\ tx.offer_icon_url = row.offer_icon_url
              /\ tx.amount = row.amount
      ]_vars

\* a row with a title, an amount of 5 and no icon was reused by a call that
\* supplied the amount 0 and nothing else: amount 0, title kept, icon null
C29_Witness ==
    /\ last.op = "createOrReuse"
    /\ last.via = "update"
    /\ last.outcome = "ok"
    /\ last.args[1].amount = Some(0)
    /\ last.args[1].offerTitle = Null
    /\ last.args[1].offerIconUrl = Null
    /\ transactions[last.tx[1].id].amount = Some(0)
    /\ transactions[last.tx[1].id].offer_title = Some("Offer")
    /\ transactions[last.tx[1].id].offer_icon_url = Null

-----------------------------------------------------------------------------
\* C30: when the pair of a createOrReuse call has non-paid rows, several of
\* them included, the row the find step selects is a non-paid row of the pair
\* that no other non-paid row of the pair is newer than, never a paid row;
\* the update step that follows sets that row to pending and leaves every
\* other row of the table, the pair's other rows included, as it was.
C30_ReusesLatest ==
    [][ \A p \in Procs :
          /\ FindReturns(p) =>
                LET input == local'[p].input[1]
                    candidates == NonPaid(input.userId, input.offerId)
                IN  IF candidates = {}
                    THEN local'[p].existing = Null
                    ELSE /\ local'[p].existing # Null
                         /\ LET found == local'[p].existing[1]
                            IN  /\ found.id \in candidates
                                /\ found = transactions[found.id]
                                /\ found.status # "paid"
                                /\ \A i \in candidates :
                                      transactions[i].created_at <= found.created_at
          /\ ReuseEnds(p) =>
                LET found == local[p].existing[1]
                IN  /\ transactions'[found.id].status = "pending"
                    /\ last'.tx[1].id = found.id
                    /\ Len(transactions') = Len(transactions)
                    /\ \A i \in Ids : i # found.id => transactions'[i] = transactions[i]
      ]_vars

\* the pair had two non-paid rows of different creation times: the newer one
\* was reused and returned, the older one is as it was created
C30_Witness ==
    /\ last.op = "createOrReuse"
    /\ last.via = "update"
    /\ last.outcome = "ok"
    /\ last.gw = "ok"
    /\ \E i \in Ids :
          /\ i # last.tx[1].id
          /\ transactions[i].user_id = last.tx[1].user_id
          /\ transactions[i].offer_id = last.tx[1].offer_id
          /\ transactions[i].status = "pending"
          /\ transactions[i].created_at < last.tx[1].created_at
    /\ transactions[last.tx[1].id].status = "pending"
    /\ Cardinality(NonPaid(last.tx[1].user_id, "o1")) = 2

-----------------------------------------------------------------------------
\* C31: a createOrReuse call that succeeds changes the table in one row only:
\* on the insert path it appends one row and leaves every row as it was; on
\* the reuse path it adds none, leaves every row but the found one as it was
\* (the rows of other pairs included), and the found row keeps its id,
\* user_id, offer_id, created_at, proof_url and notes.
KeptColumns == {"id", "user_id", "offer_id", "created_at", "proof_url", "notes"}

C31_OneRowTouched ==
    [][ \A p \in Procs : CreateOrReuseEnds(p) /\ last'.outcome = "ok" =>
          IF last'.via = "insert"
          THEN /\ Len(transactions') = Len(transactions) + 1
               /\ \A i \in Ids : transactions'[i] = transactions[i]
          ELSE LET id == local[p].existing[1].id
               IN  /\ Len(transactions') = Len(transactions)
                   /\ \A i \in Ids : i # id => transactions'[i] = transactions[i]
                   /\ \A c \in KeptColumns : transactions'[id][c] = transactions[id][c]
      ]_vars

\* a rejected row carrying the admin's notes was re-opened: it is pending, not
\* reviewed, and the notes are still there
C31_Witness ==
    /\ last.op = "createOrReuse"
    /\ last.via = "update"
    /\ last.outcome = "ok"
    /\ last.was = "rejected"
    /\ transactions[last.tx[1].id].status = "pending"
    /\ transactions[last.tx[1].id].notes = Some("note")
    /\ transactions[last.tx[1].id].reviewed_by = Null
    /\ last.tx[1].notes = Some("note")

-----------------------------------------------------------------------------
\* the columns of row i that a step changes
Written(i) == {c \in Columns : transactions'[i][c] # transactions[i][c]}

SuppliedOptions(options) == IF options = Null THEN {} ELSE DOMAIN options[1]

-----------------------------------------------------------------------------
\* C33: emitTransaction delivers to the copy of the listeners taken when it
\* starts: each turn of the loop invokes the first callback still to call and
\* leaves the others still to call as they were, whatever that callback
\* registers or de-registers; so a callback de-registered during the publish
\* is still invoked for it, one registered during the publish is not, and the
\* publish ends.
C33_SnapshotDelivery ==
    /\ [][ \A e \in 1..MaxEmits : EmitInProgress(e) /\ Len(deliveries') > Len(deliveries) =>
              /\ Invokes([cb |-> Head(emitting[1].queue), payload |-> e,
                          threw |-> deliveries'[Len(deliveries')].threw])
              /\ DeliveredTo(e) \o emitting[1].queue = snapshot[e]
              /\ IF Tail(emitting[1].queue) = <<>>
                 THEN emitting' = Null
                 ELSE /\ emitting' # Null
                      /\ emitting'[1].payload = e
                      /\ emitting'[1].queue = Tail(emitting[1].queue)
          ]_vars
    /\ ~BusIdle ~> BusIdle

\* a callback was invoked although an earlier callback of the same publish
\* had de-registered it: it is no listener any more, and the publish is over
C33_Witness ==
    /\ busOp.op = "deliver"
    /\ busOp.effect = <<"none">>
    /\ busOp.cb \in removed
    /\ busOp.cb \notin Range(listeners)
    /\ deliveries[Len(deliveries)].cb = busOp.cb
    /\ EmitDone(deliveries[Len(deliveries)].payload)
    /\ \E k \in 1..(Len(deliveries) - 1) :
          /\ deliveries[k].payload = deliveries[Len(deliveries)].payload
          /\ deliveries[k].cb \in Acting

-----------------------------------------------------------------------------
\* C34: registration is keyed by the callback: registering a callback that is
\* registered leaves the listeners as they are (one entry, at the place of
\* the first registration), a publish invokes a callback once however many
\* times it was registered, and a call of any one handle of a callback leaves
\* that callback unregistered, whatever other handles it has, and every other
\* callback in place.
C34_KeyedByCallback ==
    [][ /\ \A c \in Callbacks : issued' = Append(issued, c) =>
              IF c \in Range(listeners)
              THEN listeners' = listeners
              ELSE listeners' = Append(listeners, c)
        /\ \A h \in DOMAIN issued : lastHandle' = h /\ busOp'.op = "handle" /\ busOp' # busOp =>
              /\ issued[h] \notin Range(listeners')
              /\ listeners' = SelectSeq(listeners, LAMBDA x : x # issued[h])
        /\ Len(listeners') = Cardinality(Range(listeners'))
        /\ \A e \in 1..emits' :
              Len(snapshot'[e]) = Cardinality(Range(snapshot'[e]))
        /\ \A e \in 1..emits' : ~(emitting' # Null /\ emitting'[1].payload = e) =>
              DeliveredTo(e)' = snapshot'[e]
      ]_vars

\* a callback was registered twice and published to once; then its first
\* handle was called, once: it is no listener, with its second handle unused
C34_Witness ==
    /\ Len(issued) = 3
    /\ issued[1] = issued[3]
    /\ issued[2] # issued[1]
    /\ lastHandle = 1
    /\ busOp.op = "handle"
    /\ listeners = <<issued[2]>>
    /\ emits = 1
    /\ DeliveredTo(1) = <<issued[1], issued[2]>>

-----------------------------------------------------------------------------
UniqueIds(list) == \A j, k \in DOMAIN list : list[j].id = list[k].id => j = k

\* C35: an event carrying a transaction of the signed-in user leaves that
\* transaction at the head of the list, followed by the entries held before
\* in their order less any entry of the same id, so no id is held twice; an
\* event carrying another user's transaction, or none, leaves the list as it
\* is; a subscription delivery leaves the delivered list and nothing else.
C35_MergeAndReplace ==
    [][ <<txs, walletOp>>' # <<txs, walletOp>> =>
          /\ walletOp'.kind = "event" =>
                IF walletOp'.tx # Null /\ walletOp'.tx[1].user_id = WalletUser
                THEN LET tx == walletOp'.tx[1]
                     IN  /\ Head(txs') = tx
                         /\ \A k \in 2..Len(txs') : txs'[k].id # tx.id
                         /\ Tail(txs') = SelectSeq(txs, LAMBDA q : q.id # tx.id)
                ELSE txs' = txs
          /\ walletOp'.kind = "delivery" => txs' = walletOp'.items
          /\ UniqueIds(txs) => UniqueIds(txs')
      ]_vars

\* the list held three entries; an event brought the second one again, now
\* paid: it is at the head, once, and the other two follow in their order
C35_Witness ==
    /\ walletOp.kind = "event"
    /\ walletOp.tx # Null
    /\ walletOp.tx[1].id = "t2"
    /\ walletOp.tx[1].status = "paid"
    /\ Len(txs) = 3
    /\ txs[1] = walletOp.tx[1]
    /\ txs[2].id = "t1"
    /\ txs[3].id = "t3"

-----------------------------------------------------------------------------
NonPaidOf(list, o) ==
    {k \in DOMAIN list : list[k].status # "paid" /\ list[k].offer_id = Some(o)}

\* C36: the displayed list is the held list, in its order, less some non-paid
\* transactions with an offer: it holds every paid transaction, every
\* non-paid transaction without an offer, and for each offer that has
\* non-paid transactions exactly one of them, none of the others being newer.
C36_DisplayedList ==
    /\ displayTxs = Filter(txs, Elements(displayTxs))
    /\ Elements(displayTxs) \subseteq Elements(txs)
    /\ \A k \in DOMAIN txs :
          txs[k].status = "paid" \/ txs[k].offer_id = Null =>
              txs[k] \in Elements(displayTxs)
    /\ \A o \in Offers :
          /\ Cardinality(NonPaidOf(displayTxs, o)) <= 1
          /\ NonPaidOf(txs, o) # {} =>
                \E k \in NonPaidOf(displayTxs, o) :
                    \A j \in NonPaidOf(txs, o) :
                        txs[j].created_at <= displayTxs[k].created_at

\* paid, then an older pending and a newer rejected transaction of one offer:
\* the paid and the newer one are displayed
C36_Witness ==
    /\ Len(txs) = 3
    /\ txs[1].status = "paid"
    /\ txs[2].status = "pending" /\ txs[2].offer_id = Some("o1")
    /\ txs[3].status = "rejected" /\ txs[3].offer_id = Some("o1")
    /\ displayTxs = <<txs[1], txs[3]>>

-----------------------------------------------------------------------------
\* C37: the instances are independent: the unsubscribe of one instance
\* changes nothing of another (its flag, its channel, its notifications, its
\* queries); a query of an open instance that resolves is delivered to it
\* whatever instances are closed; and a closed instance stays as its first
\* unsubscribe left it, further calls of unsubscribe included.
C37_IndependentInstances ==
    [][ \A i \in Instances :
          /\ ~Closed(i) /\ subs'[i].cancelled =>
                \A j \in Instances \ {i} :
                    /\ subs'[j] = subs[j]
                    /\ {q \in queries' : q.inst = j} = QueriesOf(j)
          /\ \A q \in QueriesOf(i) : Resolves(q) /\ Open(i) =>
                /\ Len(subs'[i].delivered) = Len(Delivered(i)) + 1
                /\ subs'[i].delivered[Len(subs'[i].delivered)].n = q.n
          /\ Closed(i) =>
                /\ subs'[i].cancelled
                /\ ~subs'[i].channel
                /\ subs'[i].notifs = 0
                /\ subs'[i].delivered = Delivered(i)
      ]_vars

\* the second instance was closed before its initial load resolved; the first
\* one has received its initial load and a reload
C37_Witness ==
    /\ Closed("s2")
    /\ Delivered("s2") = <<>>
    /\ subs["s2"].dropped = 1
    /\ Open("s1")
    /\ Len(Delivered("s1")) = 2
    /\ Delivered("s1")[2].trigger = "change"

-----------------------------------------------------------------------------
\* a list is the whole store, every entry once, newest first
FullSorted(list, entries) ==
    /\ Len(list) = Len(entries)
    /\ Elements(list) = Elements(entries)
    /\ \A j, k \in DOMAIN list : j < k => list[j].timestamp >= list[k].timestamp

\* C38: in the in-memory store, subscribeTransactions calls the callback at
\* once with the current list; addTransactionPending and
\* updateTransactionStatus call every subscribed callback once, in order,
\* with the whole list sorted by timestamp descending; updateTransactionStatus
\* changes the status of the entries with the given id and nothing else,
\* nothing at all for an unknown id; and no call goes to a callback that is
\* not subscribed.
C38_StoreNotifies ==
    [][ storeOp' # storeOp \/ store' # store \/ storeSubs' # storeSubs =>
          /\ \A k \in DOMAIN storeOp'.calls :
                /\ FullSorted(storeOp'.calls[k].items, store')
                /\ storeOp'.calls[k].cb \in Range(storeSubs')
          /\ storeOp'.kind = "subscribe" =>
                /\ Len(storeOp'.calls) = 1
                /\ storeOp'.calls[1].cb = storeOp'.arg
                /\ store' = store
          /\ storeOp'.kind \in {"add", "update"} =>
                /\ [k \in DOMAIN storeOp'.calls |-> storeOp'.calls[k].cb] = storeSubs
                /\ storeSubs' = storeSubs
          /\ storeOp'.kind = "unsubscribe" =>
                /\ storeOp'.calls = <<>>
                /\ storeOp'.arg \notin Range(storeSubs')
                /\ store' = store
          /\ storeOp'.kind = "update" =>
                /\ Len(store') = Len(store)
                /\ \A k \in DOMAIN store :
                      IF store[k].id = storeOp'.arg
                      THEN \A f \in {"id", "amount", "timestamp"} : store'[k][f] = store[k][f]
                      ELSE store'[k] = store[k]
                /\ (\A k \in DOMAIN store : store[k].id # storeOp'.arg) => store' = store
          /\ storeOp'.kind = "add" =>
                /\ Tail(store') = store
                /\ Head(store').status = "pending"
      ]_vars

\* after an addition, seed-3 was set to paid with y subscribed and x not any
\* more: y alone was called, once, with the seven entries, the new one first
C38_Witness ==
    /\ storeOp.kind = "update"
    /\ storeOp.arg = "seed-3"
    /\ storeSubs = <<"y">>
    /\ Len(storeOp.calls) = 1
    /\ storeOp.calls[1].cb = "y"
    /\ Len(storeOp.calls[1].items) = 7
    /\ storeOp.calls[1].items[1].id = "tx-1"
    /\ storeOp.calls[1].items[2].id = "seed-6"
    /\ storeOp.calls[1].items[3] =
          [id |-> "seed-3", status |-> "paid", amount |-> 6, timestamp |-> 5]
    /\ store[4].status = "paid"

====
